---------------------------- MODULE Spec2Model ----------------------------
(***************************************************************************)
(* Trajectory recording, quality scoring, embedding storage and similarity *)
(* search of bytebot-agent/src/trajectory.                                 *)
(*                                                                         *)
(* Units.  Rates (errorRate, clickAccuracy, similarity) are in thousandths *)
(* (0.8 is 800); quality scores are in ten-thousandths (1.0 is 10000), so  *)
(* that every product of the scoring formula is an exact integer.  Time is *)
(* a clock of ticks; config.minDuration is in the same ticks.              *)
(* An absent value (undefined / null) is the empty set, a present value v  *)
(* is {v}.                                                                 *)
(***************************************************************************)
EXTENDS Integers, Sequences, FiniteSets, TLC

VARIABLES
    config,              \* TrajectoryRecorderService.config
    paused,              \* TrajectoryRecorderService.paused
    activeTrajectories,  \* TrajectoryRecorderService.activeTrajectories (a Map)
    now,                 \* the wall clock read by new Date()
    calls,               \* completeTrajectory calls suspended at an await
    taskTrajectory,      \* rows of table "TaskTrajectory"
    trajectoryStep,      \* rows of table "TrajectoryStep"
    trajectoryEmbedding, \* rows of table "TrajectoryEmbedding"
    fewShotExample,      \* rows of table "FewShotExample"
    nextId,              \* source of fresh row ids
    fewShot,             \* TrajectorySearchService.config
    openai,              \* TrajectorySearchService.openai # null
    embeddingCache,      \* TrajectorySearchService.embeddingCache (a Map, in insertion order)
    stored,              \* the last storeEmbedding call and what it did
    found,               \* the last findSimilar call and what it returned
    started,             \* how many recordings have been started so far
    embeds,              \* how many storeEmbedding calls have been made so far
    searches,            \* how many findSimilar calls have been made so far
    scoreIn,             \* the trajectory handed to calculateQualityScore
    scoreOut,            \* what calculateQualityScore returned for it
    exported,            \* the outcome of the last exportForFineTuning or
                         \* exportStatistics call, if the step that led here
                         \* was one: its arguments, the rows of the store,
                         \* what it returned, whether it raised
    cleaned,             \* the outcome of the last cleanup call, if the step
                         \* that led here was one: its options, the rows
                         \* before it, what it returned, whether it raised
    last                 \* the lifecycle call (start, complete, cancel) handled by
                         \* the step that led here: its arguments, how it ended,
                         \* whether it raised, whether it wrote to the store

vars == <<config, paused, activeTrajectories, now, calls, taskTrajectory,
          trajectoryStep, trajectoryEmbedding, fewShotExample, nextId, fewShot,
          openai,
          embeddingCache, stored, found, started, embeds, searches, scoreIn,
          scoreOut, exported, cleaned, last>>

recorderVars == <<config, paused, activeTrajectories, now, calls>>
storeVars == <<taskTrajectory, trajectoryStep, trajectoryEmbedding,
               fewShotExample, nextId>>
searchVars == <<fewShot, openai, embeddingCache, stored, found>>
scoreVars == <<started, embeds, searches, scoreIn, scoreOut, exported,
               cleaned>>

----------------------------------------------------------------------------
(* Bounds of the model *)

MaxTime == 1
MaxIterations == 1
MaxInterventions == 1
MaxCalls == 1
MaxStarts == 2
MaxEmbeds == 2
MaxSearches == 1

(* Inputs *)

Tasks == {"t1", "t2"}
Providers == {"anthropic", "openai"}
ModelNameOf == [p \in Providers |-> IF p = "anthropic" THEN "claude" ELSE "gpt"]

\* Task.description of each task ("" is falsy at saveTrajectory's check)
TaskDescription(taskId) ==
    CASE taskId = "t1" -> "open settings"
      [] taskId = "t3" -> "change theme"
      [] OTHER -> ""

\* the step that led here handled no lifecycle call, or one that found
\* nothing to do
NoEvent == [op |-> "", taskId |-> "", outcome |-> "", success |-> FALSE,
            elapsed |-> 0, raised |-> FALSE, wrote |-> FALSE, replaced |-> {}]

None == {}
Some(x) == {x}
Get(o) == CHOOSE x \in o : TRUE

Range(s) == { s[k] : k \in DOMAIN s }

Min(a, b) == IF a < b THEN a ELSE b
Max(a, b) == IF a > b THEN a ELSE b

RemoveAt(s, i) == [j \in 1..(Len(s) - 1) |-> IF j < i THEN s[j] ELSE s[j + 1]]

\* Map.delete / Map.set / Map.has on a function whose domain is the key set
MapDelete(m, k) == [x \in (DOMAIN m) \ {k} |-> m[x]]
MapSet(m, k, v) == [x \in (DOMAIN m) \cup {k} |-> IF x = k THEN v ELSE m[x]]
MapHas(m, k) == k \in DOMAIN m

\* An IterationSnapshot as the task loop hands it over for its n-th iteration
Snapshots(n) ==
    { [iterationNumber |-> n,
       systemPrompt |-> "prompt A",
       messages |-> <<>>,
       reasoning |-> None,
       tokenUsage |-> [input |-> 3, output |-> 2],
       toolCalls |-> Some(<<"computer_click_mouse">>)] }

\* Partial<TrajectoryMetrics> given to completeTrajectory: each field is
\* absent (None) or carries a value; all absent is the call without metrics
NoMetrics == [errorRate |-> None, clickAccuracy |-> None, tokenUsage |-> None]
AdditionalMetrics ==
    { NoMetrics,
      [errorRate |-> Some(300),
       clickAccuracy |-> Some(500),
       tokenUsage |-> Some([input |-> 7, output |-> 1, total |-> 9])] }

----------------------------------------------------------------------------
(* TrajectoryRecorderService *)

\* whether the step under way changes a table of the store
Wrote ==
    <<taskTrajectory, trajectoryStep, trajectoryEmbedding>>' #
        <<taskTrajectory, trajectoryStep, trajectoryEmbedding>>

Event(op, taskId, outcome, success, elapsed, raised) ==
    [op |-> op, taskId |-> taskId, outcome |-> outcome, success |-> success,
     elapsed |-> elapsed, raised |-> raised, wrote |-> Wrote, replaced |-> None]

shouldRecord_ignoresPause(modelProvider) ==
    IF ~config.enabled THEN FALSE
    ELSE IF config.modelProviders = {} THEN TRUE
    ELSE modelProvider \in config.modelProviders

shouldRecord(modelProvider) ==
    IF ~config.enabled THEN FALSE
    ELSE IF paused THEN FALSE
    ELSE IF config.modelProviders = {} THEN TRUE
    ELSE modelProvider \in config.modelProviders

NewTrajectoryData(taskId, modelProvider, modelName) ==
    [taskId |-> taskId,
     modelProvider |-> modelProvider,
     modelName |-> modelName,
     success |-> FALSE,
     startedAt |-> now,
     completedAt |-> None,
     iterations |-> <<>>,
     metrics |-> [iterationCount |-> 0,
                  toolCallsCount |-> 0,
                  tokenUsage |-> [input |-> 0, output |-> 0, total |-> 0],
                  errorRate |-> 0,
                  clickAccuracy |-> None,
                  userInterventions |-> 0]]

\* the record that activeTrajectories.set(taskId, ...) or
\* activeTrajectories.delete(taskId) puts out of the map, if any
Replaced(taskId) ==
    IF MapHas(activeTrajectories, taskId)
    THEN Some(activeTrajectories[taskId])
    ELSE None

\* a startTrajectory that leaves a record under way as it is
startTrajectory_keepsExisting(taskId, modelProvider, modelName) ==
    /\ UNCHANGED <<config, paused, now, calls, storeVars, searchVars,
                   embeds, searches, scoreIn, scoreOut, exported,
                   cleaned>>
    /\ IF ~shouldRecord(modelProvider)
       THEN /\ UNCHANGED <<activeTrajectories, started>>
            /\ last' = NoEvent
       ELSE /\ activeTrajectories' =
                   IF MapHas(activeTrajectories, taskId)
                   THEN activeTrajectories
                   ELSE MapSet(activeTrajectories, taskId,
                               NewTrajectoryData(taskId, modelProvider, modelName))
            /\ started' = started + 1
            /\ last' = [Event("startTrajectory", taskId, "recording",
                              FALSE, 0, FALSE)
                           EXCEPT !.replaced = Replaced(taskId)]

startTrajectory(taskId, modelProvider, modelName) ==
    /\ UNCHANGED <<config, paused, now, calls, storeVars, searchVars,
                   embeds, searches, scoreIn, scoreOut, exported,
                   cleaned>>
    /\ IF ~shouldRecord(modelProvider)
       THEN /\ UNCHANGED <<activeTrajectories, started>>
            /\ last' = NoEvent
       ELSE /\ activeTrajectories' =
                   MapSet(activeTrajectories, taskId,
                          NewTrajectoryData(taskId, modelProvider, modelName))
            /\ started' = started + 1
            /\ last' = [Event("startTrajectory", taskId, "recording",
                              FALSE, 0, FALSE)
                           EXCEPT !.replaced = Replaced(taskId)]

\* a recordIteration that adds only the input tokens to the running total
recordIteration_totalOfInput(taskId, snapshot) ==
    /\ UNCHANGED <<config, paused, now, calls, storeVars, searchVars, scoreVars>>
    /\ last' = NoEvent
    /\ IF ~MapHas(activeTrajectories, taskId)
       THEN UNCHANGED activeTrajectories
       ELSE LET trajectory == activeTrajectories[taskId]
                m == trajectory.metrics
                metrics ==
                    [m EXCEPT
                       !.iterationCount = @ + 1,
                       !.tokenUsage =
                           [input |-> @.input + snapshot.tokenUsage.input,
                            output |-> @.output + snapshot.tokenUsage.output,
                            total |-> @.total + snapshot.tokenUsage.input],
                       !.toolCallsCount =
                           IF snapshot.toolCalls # None
                           THEN @ + Len(Get(snapshot.toolCalls)) ELSE @]
            IN  activeTrajectories' =
                    [activeTrajectories EXCEPT ![taskId] =
                        [trajectory EXCEPT
                           !.iterations = Append(@, snapshot),
                           !.metrics = metrics]]

recordIteration(taskId, snapshot) ==
    /\ UNCHANGED <<config, paused, now, calls, storeVars, searchVars, scoreVars>>
    /\ last' = NoEvent
    /\ IF ~MapHas(activeTrajectories, taskId)
       THEN UNCHANGED activeTrajectories
       ELSE LET trajectory == activeTrajectories[taskId]
                m == trajectory.metrics
                metrics ==
                    [m EXCEPT
                       !.iterationCount = @ + 1,
                       !.tokenUsage =
                           [input |-> @.input + snapshot.tokenUsage.input,
                            output |-> @.output + snapshot.tokenUsage.output,
                            total |-> @.total + snapshot.tokenUsage.input
                                              + snapshot.tokenUsage.output],
                       !.toolCallsCount =
                           IF snapshot.toolCalls # None
                           THEN @ + Len(Get(snapshot.toolCalls)) ELSE @]
            IN  activeTrajectories' =
                    [activeTrajectories EXCEPT ![taskId] =
                        [trajectory EXCEPT
                           !.iterations = Append(@, snapshot),
                           !.metrics = metrics]]

\* a recordUserIntervention that opens a record for a task without one
recordUserIntervention_createsRecord(taskId) ==
    /\ UNCHANGED <<config, paused, now, calls, storeVars, searchVars, scoreVars>>
    /\ last' = NoEvent
    /\ IF ~MapHas(activeTrajectories, taskId)
       THEN activeTrajectories' =
                MapSet(activeTrajectories, taskId,
                       [NewTrajectoryData(taskId, "anthropic",
                                          ModelNameOf["anthropic"])
                            EXCEPT !.metrics.userInterventions = 1])
       ELSE activeTrajectories' =
                [activeTrajectories EXCEPT
                   ![taskId].metrics.userInterventions = @ + 1]

recordUserIntervention(taskId) ==
    /\ UNCHANGED <<config, paused, now, calls, storeVars, searchVars, scoreVars>>
    /\ last' = NoEvent
    /\ IF ~MapHas(activeTrajectories, taskId)
       THEN UNCHANGED activeTrajectories
       ELSE activeTrajectories' =
                [activeTrajectories EXCEPT
                   ![taskId].metrics.userInterventions = @ + 1]

\* { ...trajectory.metrics, ...additionalMetrics }
MergeMetrics(metrics, additionalMetrics) ==
    [metrics EXCEPT
       !.errorRate = IF additionalMetrics.errorRate # None
                     THEN Get(additionalMetrics.errorRate) ELSE @,
       !.clickAccuracy = IF additionalMetrics.clickAccuracy # None
                         THEN additionalMetrics.clickAccuracy ELSE @,
       !.tokenUsage = IF additionalMetrics.tokenUsage # None
                      THEN Get(additionalMetrics.tokenUsage) ELSE @]

ScoreOne == 10000

\* calculateQualityScore without its early return for failed runs
calculateQualityScore_scoresFailures(trajectory) ==
    LET metrics == trajectory.metrics
        s1 == IF metrics.userInterventions > 0
              THEN ScoreOne - 3000 * Min(metrics.userInterventions, 3)
              ELSE ScoreOne
        iterationPenalty == Max(0, (metrics.iterationCount - 10) * 200)
    IN  Some(Max(0, Min(ScoreOne, s1 - iterationPenalty)))

\* calculateQualityScore without its final clamp
calculateQualityScore_unclamped(trajectory) ==
    IF ~trajectory.success
    THEN None
    ELSE LET metrics == trajectory.metrics
             s1 == IF metrics.userInterventions > 0
                   THEN ScoreOne - 3000 * Min(metrics.userInterventions, 3)
                   ELSE ScoreOne
             s2 == IF metrics.errorRate > 100
                   THEN s1 - 2 * (metrics.errorRate - 100)
                   ELSE s1
             s3 == IF metrics.clickAccuracy # None
                      /\ Get(metrics.clickAccuracy) < 800
                   THEN s2 - 2 * (800 - Get(metrics.clickAccuracy))
                   ELSE s2
             iterationPenalty == Max(0, (metrics.iterationCount - 10) * 200)
         IN  Some(s3 - iterationPenalty)

calculateQualityScore(trajectory) ==
    IF ~trajectory.success
    THEN None
    ELSE LET metrics == trajectory.metrics
             s1 == IF metrics.userInterventions > 0
                   THEN ScoreOne - 3000 * Min(metrics.userInterventions, 3)
                   ELSE ScoreOne
             s2 == IF metrics.errorRate > 100
                   THEN s1 - 2 * (metrics.errorRate - 100)
                   ELSE s1
             s3 == IF metrics.clickAccuracy # None
                      /\ Get(metrics.clickAccuracy) < 800
                   THEN s2 - 2 * (800 - Get(metrics.clickAccuracy))
                   ELSE s2
             iterationPenalty == Max(0, (metrics.iterationCount - 10) * 200)
             s4 == s3 - iterationPenalty
         IN  Some(Max(0, Min(ScoreOne, s4)))


\* the data object handed to prisma.taskTrajectory.create, built before the
\* call suspends
TrajectoryCreateData(trajectory, qualityScore) ==
    [taskId |-> trajectory.taskId,
     modelProvider |-> trajectory.modelProvider,
     modelName |-> trajectory.modelName,
     success |-> trajectory.success,
     qualityScore |-> qualityScore,
     iterationCount |-> trajectory.metrics.iterationCount,
     toolCallsCount |-> trajectory.metrics.toolCallsCount,
     tokenUsageInput |-> trajectory.metrics.tokenUsage.input,
     tokenUsageOutput |-> trajectory.metrics.tokenUsage.output,
     tokenUsageTotal |-> trajectory.metrics.tokenUsage.total,
     errorRate |-> trajectory.metrics.errorRate,
     clickAccuracy |-> trajectory.metrics.clickAccuracy,
     userInterventions |-> trajectory.metrics.userInterventions,
     startedAt |-> trajectory.startedAt,
     completedAt |-> trajectory.completedAt,
     steps |-> [k \in 1..Len(trajectory.iterations) |->
                  [iterationNumber |-> trajectory.iterations[k].iterationNumber,
                   systemPrompt |-> trajectory.iterations[k].systemPrompt,
                   messagesSnapshot |-> Some(trajectory.iterations[k].messages),
                   reasoning |-> trajectory.iterations[k].reasoning,
                   toolCalls |-> trajectory.iterations[k].toolCalls,
                   tokenUsageInput |-> trajectory.iterations[k].tokenUsage.input,
                   tokenUsageOutput |-> trajectory.iterations[k].tokenUsage.output]]]

\* duration < this.config.minDuration
TooShort_never(duration) == FALSE

TooShort(duration) == duration < config.minDuration

\* !success && !this.config.recordFailures
SkipFailure_ignoresPolicy(success) == ~success

SkipFailure(success) == ~success /\ ~config.recordFailures

\* The part of completeTrajectory that runs before its first await
completeTrajectory(taskId, success, additionalMetrics) ==
    /\ UNCHANGED <<config, paused, now, storeVars, searchVars, scoreVars>>
    /\ IF ~MapHas(activeTrajectories, taskId)
       THEN /\ UNCHANGED <<activeTrajectories, calls>>
            /\ last' = NoEvent
       ELSE LET trajectory == activeTrajectories[taskId]
                duration == now - trajectory.startedAt
                updated == [trajectory EXCEPT
                              !.success = success,
                              !.completedAt = Some(now),
                              !.metrics = MergeMetrics(@, additionalMetrics)]
                qualityScore == calculateQualityScore(updated)
            IN  IF TooShort(duration)
                THEN /\ activeTrajectories' = MapDelete(activeTrajectories, taskId)
                     /\ UNCHANGED calls
                     /\ last' = Event("completeTrajectory", taskId, "tooShort",
                                      success, duration, FALSE)
                ELSE IF SkipFailure(success)
                THEN /\ activeTrajectories' = MapDelete(activeTrajectories, taskId)
                     /\ UNCHANGED calls
                     /\ last' = Event("completeTrajectory", taskId,
                                      "skippedFailure", success, duration, FALSE)
                ELSE /\ activeTrajectories' =
                            [activeTrajectories EXCEPT ![taskId] = updated]
                     /\ calls' = Append(calls,
                            [taskId |-> taskId,
                             success |-> success,
                             elapsed |-> duration,
                             stage |-> "create",
                             id |-> 0,
                             embedding |-> <<>>,
                             data |-> TrajectoryCreateData(updated, qualityScore)])
                     /\ last' = Event("completeTrajectory", taskId,
                                      "awaitingCreate", success, duration, FALSE)

cancelTrajectory_keepsRecord(taskId) ==
    /\ UNCHANGED <<config, paused, now, calls, storeVars, searchVars, scoreVars,
                   activeTrajectories>>
    /\ last' = IF MapHas(activeTrajectories, taskId)
               THEN Event("cancelTrajectory", taskId, "cancelled", FALSE, 0, FALSE)
               ELSE NoEvent

\* a cancelTrajectory that also gives up the saves of the task under way
cancelTrajectory_abortsSave(taskId) ==
    /\ UNCHANGED <<config, paused, now, storeVars, searchVars, scoreVars>>
    /\ activeTrajectories' = MapDelete(activeTrajectories, taskId)
    /\ calls' = SelectSeq(calls, LAMBDA call : call.taskId # taskId)
    /\ last' = IF MapHas(activeTrajectories, taskId)
               THEN Event("cancelTrajectory", taskId, "cancelled", FALSE, 0, FALSE)
               ELSE NoEvent

cancelTrajectory(taskId) ==
    /\ UNCHANGED <<config, paused, now, calls, storeVars, searchVars, scoreVars>>
    /\ activeTrajectories' = MapDelete(activeTrajectories, taskId)
    /\ last' = IF MapHas(activeTrajectories, taskId)
               THEN Event("cancelTrajectory", taskId, "cancelled", FALSE, 0, FALSE)
               ELSE NoEvent

\* a pause that also drops the recordings under way
pause_dropsRecordings ==
    /\ paused' = TRUE
    /\ activeTrajectories' = [x \in {} |-> 0]
    /\ last' = NoEvent
    /\ UNCHANGED <<config, now, calls, storeVars, searchVars, scoreVars>>

pause ==
    /\ paused' = TRUE
    /\ last' = NoEvent
    /\ UNCHANGED <<config, activeTrajectories, now, calls, storeVars,
                   searchVars, scoreVars>>

resume ==
    /\ paused' = FALSE
    /\ last' = NoEvent
    /\ UNCHANGED <<config, activeTrajectories, now, calls, storeVars,
                   searchVars, scoreVars>>

----------------------------------------------------------------------------
(* TrajectorySearchService: embeddings *)

\* The texts embedded in this model and the vector the provider returns for
\* each (two dimensions stand for the provider's 1536)
Texts == {"open settings", "change theme", "open theme settings"}
EmbeddingOf(text) ==
    CASE text = "open settings" -> <<1, 0>>
      [] text = "change theme" -> <<0, 1>>
      [] OTHER -> <<3, 4>>

\* embeddingCache is kept as the sequence of its entries in insertion order.
\* CacheLimit is the size above which an insertion evicts; the program's
\* value is 100, the model takes a small one so that eviction is reached.
CacheLimit == 1

CacheHas(cache, text) == \E k \in 1..Len(cache) : cache[k].text = text
CacheGet(cache, text) ==
    cache[CHOOSE k \in 1..Len(cache) : cache[k].text = text].embedding

\* if (size > limit) delete(first key); then set(text, embedding)
CacheInsert(cache, text, embedding) ==
    LET kept == IF Len(cache) > CacheLimit THEN Tail(cache) ELSE cache
    IN  IF CacheHas(kept, text)
        THEN [k \in 1..Len(kept) |->
                IF kept[k].text = text
                THEN [text |-> text, embedding |-> embedding]
                ELSE kept[k]]
        ELSE Append(kept, [text |-> text, embedding |-> embedding])

\* INSERT ... without the conflict clause
UpsertEmbedding_plainInsert(rows, id, trajectoryId, taskDescription, embedding) ==
    rows \cup { [id |-> id, trajectoryId |-> trajectoryId,
                 taskDescription |-> taskDescription, embedding |-> embedding] }

\* INSERT ... ON CONFLICT ("trajectoryId") DO UPDATE SET "taskDescription",
\* embedding
UpsertEmbedding(rows, id, trajectoryId, taskDescription, embedding) ==
    IF \E e \in rows : e.trajectoryId = trajectoryId
    THEN { IF e.trajectoryId = trajectoryId
           THEN [e EXCEPT !.taskDescription = taskDescription,
                          !.embedding = embedding]
           ELSE e : e \in rows }
    ELSE rows \cup { [id |-> id, trajectoryId |-> trajectoryId,
                      taskDescription |-> taskDescription,
                      embedding |-> embedding] }

\* TrajectoryEmbedding_trajectoryId_fkey
TrajectoryExists(trajectoryId) == \E t \in taskTrajectory : t.id = trajectoryId


----------------------------------------------------------------------------
(* completeTrajectory after its first await: saveTrajectory, storeEmbedding *)

\* finally { this.activeTrajectories.delete(taskId) }, without the delete
Finish_keepsRecord(i, outcome, raised) ==
    /\ UNCHANGED activeTrajectories
    /\ calls' = RemoveAt(calls, i)
    /\ last' = Event("completeTrajectory", calls[i].taskId, outcome,
                     calls[i].success, calls[i].elapsed, raised)

\* a finally block that deletes only the record the call completed
Finish_keepsNewRecord(i, outcome, raised) ==
    /\ activeTrajectories' =
           IF /\ MapHas(activeTrajectories, calls[i].taskId)
              /\ activeTrajectories[calls[i].taskId].completedAt = None
           THEN activeTrajectories
           ELSE MapDelete(activeTrajectories, calls[i].taskId)
    /\ calls' = RemoveAt(calls, i)
    /\ last' = [Event("completeTrajectory", calls[i].taskId, outcome,
                      calls[i].success, calls[i].elapsed, raised)
                   EXCEPT !.replaced = Replaced(calls[i].taskId)]

\* finally { this.activeTrajectories.delete(taskId) }, then the call returns
Finish(i, outcome, raised) ==
    /\ activeTrajectories' = MapDelete(activeTrajectories, calls[i].taskId)
    /\ calls' = RemoveAt(calls, i)
    /\ last' = [Event("completeTrajectory", calls[i].taskId, outcome,
                      calls[i].success, calls[i].elapsed, raised)
                   EXCEPT !.replaced = Replaced(calls[i].taskId)]

\* a catch block that throws the error on
SaveFailed_rethrows(i) == Finish(i, "saveFailed", TRUE)

\* catch (error) { this.logger.error(...) }
SaveFailed(i) == Finish(i, "saveFailed", FALSE)

TrajectoryRow(data, id) ==
    [id |-> id,
     taskId |-> data.taskId,
     modelProvider |-> data.modelProvider,
     modelName |-> data.modelName,
     success |-> data.success,
     qualityScore |-> data.qualityScore,
     iterationCount |-> data.iterationCount,
     toolCallsCount |-> data.toolCallsCount,
     tokenUsageInput |-> data.tokenUsageInput,
     tokenUsageOutput |-> data.tokenUsageOutput,
     tokenUsageTotal |-> data.tokenUsageTotal,
     errorRate |-> data.errorRate,
     clickAccuracy |-> data.clickAccuracy,
     userInterventions |-> data.userInterventions,
     startedAt |-> data.startedAt,
     completedAt |-> data.completedAt,
     createdAt |-> now]

StepRows(data, id) ==
    { [trajectoryId |-> id,
       position |-> k,
       iterationNumber |-> data.steps[k].iterationNumber,
       systemPrompt |-> data.steps[k].systemPrompt,
       messagesSnapshot |-> data.steps[k].messagesSnapshot,
       reasoning |-> data.steps[k].reasoning,
       toolCalls |-> data.steps[k].toolCalls,
       tokenUsageInput |-> data.steps[k].tokenUsageInput,
       tokenUsageOutput |-> data.steps[k].tokenUsageOutput]
      : k \in 1..Len(data.steps) }

\* the create against a table without the unique index on taskId
CreateResolves_noUniqueIndex(i, dbOk) ==
    /\ i \in 1..Len(calls)
    /\ calls[i].stage = "create"
    /\ UNCHANGED <<config, paused, now, fewShot, openai, stored, found,
                   scoreVars>>
    /\ LET call == calls[i]
           data == call.data
           description == TaskDescription(data.taskId)
       IN  IF ~dbOk
           THEN /\ UNCHANGED <<storeVars, embeddingCache>>
                /\ SaveFailed(i)
           ELSE /\ taskTrajectory' = taskTrajectory \cup {TrajectoryRow(data, nextId)}
                /\ trajectoryStep' = trajectoryStep \cup StepRows(data, nextId)
                /\ nextId' = nextId + 1
                /\ UNCHANGED <<trajectoryEmbedding, fewShotExample,
                               embeddingCache>>
                /\ IF description = "" \/ ~openai
                   THEN Finish(i, "savedNoEmbedding", FALSE)
                   ELSE /\ UNCHANGED activeTrajectories
                        /\ IF CacheHas(embeddingCache, description)
                           THEN /\ calls' = [calls EXCEPT ![i] =
                                      [call EXCEPT
                                         !.stage = "upsert",
                                         !.id = nextId,
                                         !.embedding =
                                             CacheGet(embeddingCache, description)]]
                                /\ last' = Event("completeTrajectory", call.taskId,
                                                 "awaitingUpsert", call.success,
                                                 call.elapsed, FALSE)
                           ELSE /\ calls' = [calls EXCEPT ![i] =
                                      [call EXCEPT !.stage = "embed",
                                                   !.id = nextId]]
                                /\ last' = Event("completeTrajectory", call.taskId,
                                                 "awaitingEmbedding", call.success,
                                                 call.elapsed, FALSE)


\* prisma.taskTrajectory.create answers: the row and its steps are written
\* together or the call throws; then storeEmbedding starts when the task has
\* a description
CreateResolves(i, dbOk) ==
    /\ i \in 1..Len(calls)
    /\ calls[i].stage = "create"
    /\ UNCHANGED <<config, paused, now, fewShot, openai, stored, found,
                   scoreVars>>
    /\ LET call == calls[i]
           data == call.data
           description == TaskDescription(data.taskId)
       IN  IF ~dbOk \/ (\E t \in taskTrajectory : t.taskId = data.taskId)
           THEN /\ UNCHANGED <<storeVars, embeddingCache>>
                /\ SaveFailed(i)
           ELSE /\ taskTrajectory' = taskTrajectory \cup {TrajectoryRow(data, nextId)}
                /\ trajectoryStep' = trajectoryStep \cup StepRows(data, nextId)
                /\ nextId' = nextId + 1
                /\ UNCHANGED <<trajectoryEmbedding, fewShotExample,
                               embeddingCache>>
                /\ IF description = "" \/ ~openai
                   THEN Finish(i, "savedNoEmbedding", FALSE)
                   ELSE /\ UNCHANGED activeTrajectories
                        /\ IF CacheHas(embeddingCache, description)
                           THEN /\ calls' = [calls EXCEPT ![i] =
                                      [call EXCEPT
                                         !.stage = "upsert",
                                         !.id = nextId,
                                         !.embedding =
                                             CacheGet(embeddingCache, description)]]
                                /\ last' = Event("completeTrajectory", call.taskId,
                                                 "awaitingUpsert", call.success,
                                                 call.elapsed, FALSE)
                           ELSE /\ calls' = [calls EXCEPT ![i] =
                                      [call EXCEPT !.stage = "embed",
                                                   !.id = nextId]]
                                /\ last' = Event("completeTrajectory", call.taskId,
                                                 "awaitingEmbedding", call.success,
                                                 call.elapsed, FALSE)

\* openai.embeddings.create answers inside generateEmbedding
EmbedResolves(i, apiOk) ==
    /\ i \in 1..Len(calls)
    /\ calls[i].stage = "embed"
    /\ UNCHANGED <<config, paused, now, storeVars, fewShot, openai, stored,
                   found, scoreVars>>
    /\ LET call == calls[i]
           description == TaskDescription(call.taskId)
       IN  IF apiOk
           THEN /\ embeddingCache' = CacheInsert(embeddingCache, description,
                                                 EmbeddingOf(description))
                /\ UNCHANGED activeTrajectories
                /\ calls' = [calls EXCEPT ![i] =
                      [call EXCEPT !.stage = "upsert",
                                   !.embedding = EmbeddingOf(description)]]
                /\ last' = Event("completeTrajectory", call.taskId,
                                 "awaitingUpsert", call.success, call.elapsed,
                                 FALSE)
           ELSE /\ UNCHANGED embeddingCache
                /\ Finish(i, "savedEmbeddingFailed", FALSE)

\* the upsert answering inside a transaction with the create: a failure
\* removes the trajectory and its steps again
UpsertResolves_rollsBack(i, dbOk) ==
    /\ i \in 1..Len(calls)
    /\ calls[i].stage = "upsert"
    /\ UNCHANGED <<config, paused, now, fewShotExample, fewShot, openai,
                   embeddingCache, stored, found, scoreVars>>
    /\ LET call == calls[i]
       IN  IF dbOk /\ TrajectoryExists(call.id)
           THEN /\ UNCHANGED <<taskTrajectory, trajectoryStep>>
                /\ trajectoryEmbedding' =
                       UpsertEmbedding(trajectoryEmbedding, nextId, call.id,
                                       TaskDescription(call.taskId),
                                       call.embedding)
                /\ nextId' = nextId + 1
                /\ Finish(i, "saved", FALSE)
           ELSE /\ taskTrajectory' = { t \in taskTrajectory : t.id # call.id }
                /\ trajectoryStep' =
                       { x \in trajectoryStep : x.trajectoryId # call.id }
                /\ UNCHANGED <<trajectoryEmbedding, nextId>>
                /\ Finish(i, "savedEmbeddingFailed", FALSE)

\* prisma.$executeRaw (the upsert of storeEmbedding) answers
UpsertResolves(i, dbOk) ==
    /\ i \in 1..Len(calls)
    /\ calls[i].stage = "upsert"
    /\ UNCHANGED <<config, paused, now, taskTrajectory, trajectoryStep,
                   fewShotExample, fewShot, openai, embeddingCache, stored,
                   found, scoreVars>>
    /\ LET call == calls[i]
       IN  IF dbOk /\ TrajectoryExists(call.id)
           THEN /\ trajectoryEmbedding' =
                       UpsertEmbedding(trajectoryEmbedding, nextId, call.id,
                                       TaskDescription(call.taskId),
                                       call.embedding)
                /\ nextId' = IF \E e \in trajectoryEmbedding :
                                    e.trajectoryId = call.id
                              THEN nextId ELSE nextId + 1
                /\ Finish(i, "saved", FALSE)
           ELSE /\ UNCHANGED <<trajectoryEmbedding, nextId>>
                /\ Finish(i, "savedEmbeddingFailed", FALSE)

\* time passes
Tick ==
    /\ now < MaxTime
    /\ now' = now + 1
    /\ last' = NoEvent
    /\ UNCHANGED <<config, paused, activeTrajectories, calls, storeVars,
                   searchVars, scoreVars>>


----------------------------------------------------------------------------
(* TrajectorySearchService: storeEmbedding and findSimilar, each taken as  *)
(* one step                                                                *)

isAvailable == fewShot.enabled /\ openai

\* a generateEmbedding whose cache hit makes the entry the youngest
generateEmbedding_hitRefreshes(text, apiOk) ==
    IF CacheHas(embeddingCache, text)
    THEN [ok |-> TRUE, embedding |-> CacheGet(embeddingCache, text),
          cache |-> Append(SelectSeq(embeddingCache,
                                     LAMBDA entry : entry.text # text),
                           [text |-> text,
                            embedding |-> CacheGet(embeddingCache, text)])]
    ELSE IF apiOk
    THEN [ok |-> TRUE, embedding |-> EmbeddingOf(text),
          cache |-> CacheInsert(embeddingCache, text, EmbeddingOf(text))]
    ELSE [ok |-> FALSE, embedding |-> <<>>, cache |-> embeddingCache]

\* generateEmbedding(text): whether it returns, what it returns, and the
\* cache it leaves
generateEmbedding(text, apiOk) ==
    IF CacheHas(embeddingCache, text)
    THEN [ok |-> TRUE, embedding |-> CacheGet(embeddingCache, text),
          cache |-> embeddingCache]
    ELSE IF apiOk
    THEN [ok |-> TRUE, embedding |-> EmbeddingOf(text),
          cache |-> CacheInsert(embeddingCache, text, EmbeddingOf(text))]
    ELSE [ok |-> FALSE, embedding |-> <<>>, cache |-> embeddingCache]

storeEmbedding(trajectoryId, taskDescription, apiOk, dbOk) ==
    /\ UNCHANGED <<recorderVars, taskTrajectory, trajectoryStep,
                   fewShotExample, fewShot, openai, started, searches, scoreIn,
                   scoreOut, exported, cleaned, last>>
    /\ embeds' = embeds + 1
    /\ found' = None
    /\ IF ~openai
       THEN /\ UNCHANGED <<trajectoryEmbedding, nextId, embeddingCache>>
            /\ stored' = None
       ELSE LET generated == generateEmbedding(taskDescription, apiOk)
            IN  /\ embeddingCache' = generated.cache
                /\ IF generated.ok /\ dbOk /\ TrajectoryExists(trajectoryId)
                   THEN /\ trajectoryEmbedding' =
                               UpsertEmbedding(trajectoryEmbedding, nextId,
                                               trajectoryId, taskDescription,
                                               generated.embedding)
                        /\ nextId' = IF \E e \in trajectoryEmbedding :
                                            e.trajectoryId = trajectoryId
                                      THEN nextId ELSE nextId + 1
                        /\ stored' = Some(
                               [trajectoryId |-> trajectoryId,
                                taskDescription |-> taskDescription,
                                replaced |->
                                    \E e \in trajectoryEmbedding :
                                        /\ e.trajectoryId = trajectoryId
                                        /\ e.taskDescription # taskDescription])
                   ELSE /\ UNCHANGED <<trajectoryEmbedding, nextId>>
                        /\ stored' = None

Dot(a, b) == a[1] * b[1] + a[2] * b[2]
Norm(a) == CHOOSE n \in 0..5 : n * n = Dot(a, a)

\* the cosine distance itself, not 1 minus it
Similarity_asDistance(a, b) ==
    1000 - (1000 * Dot(a, b)) \div (Norm(a) * Norm(b))

\* 1 - (embedding <=> query): the cosine of the two vectors, in thousandths
Similarity(a, b) == (1000 * Dot(a, b)) \div (Norm(a) * Norm(b))

\* a value that || does not skip
Truthy(o) == o # None /\ Get(o) # 0

\* TrajectorySearchParams
NoParams ==
    [taskDescription |-> "", modelProvider |-> None, minQuality |-> None,
     topK |-> None, minSimilarity |-> None, successOnly |-> None]

\* the WHERE clause without the source-provider condition
WhereClause_anySource(t, params, successOnly) ==
    /\ t.success = successOnly
    /\ params.modelProvider # None
           => t.modelProvider = Get(params.modelProvider)
    /\ Truthy(params.minQuality)
           => /\ t.qualityScore # None
              /\ Get(t.qualityScore) >= Get(params.minQuality)

\* a WHERE clause that filters on success only when successOnly is true
WhereClause_successUnfiltered(t, params, successOnly) ==
    /\ successOnly => t.success
    /\ params.modelProvider # None
           => t.modelProvider = Get(params.modelProvider)
    /\ Truthy(params.minQuality)
           => /\ t.qualityScore # None
              /\ Get(t.qualityScore) >= Get(params.minQuality)
    /\ fewShot.sourceProviders # {}
           => t.modelProvider \in fewShot.sourceProviders

\* WHERE t.success = successOnly AND the optional filters
WhereClause(t, params, successOnly) ==
    /\ t.success = successOnly
    /\ params.modelProvider # None
           => t.modelProvider = Get(params.modelProvider)
    /\ Truthy(params.minQuality)
           => /\ t.qualityScore # None
              /\ Get(t.qualityScore) >= Get(params.minQuality)
    /\ fewShot.sourceProviders # {}
           => t.modelProvider \in fewShot.sourceProviders

\* FROM "TaskTrajectory" t JOIN "TrajectoryEmbedding" e ON e."trajectoryId" = t.id
Joined(params, successOnly) ==
    { c \in { [t |-> t, e |-> e] : t \in taskTrajectory, e \in trajectoryEmbedding } :
        /\ c.e.trajectoryId = c.t.id
        /\ WhereClause(c.t, params, successOnly) }

\* the query without its ORDER BY: the candidates in every order
OrderedByDistance_unordered(cands, queryEmbedding) ==
    { s \in [1..Cardinality(cands) -> cands] :
        \A i, j \in 1..Cardinality(cands) : i < j => s[i] # s[j] }

\* ORDER BY distance: the candidates in every order in which the distance to
\* the query does not decrease (rows at equal distance come in any order)
OrderedByDistance(cands, queryEmbedding) ==
    { s \in [1..Cardinality(cands) -> cands] :
        \A i, j \in 1..Cardinality(cands) :
            i < j => /\ s[i] # s[j]
                     /\ Similarity(s[i].e.embedding, queryEmbedding) >=
                            Similarity(s[j].e.embedding, queryEmbedding) }

\* the loop of findSimilar without its threshold test
FilterBySimilarity_keepsAll(results, minSimilarity) == results

\* if (result.similarity < minSimilarity) continue
FilterBySimilarity(results, minSimilarity) ==
    SelectSeq(results, LAMBDA r : ~(r.similarity < minSimilarity))

\* a catch block that throws the error on
SearchFailed_rethrows(params, failure) ==
    Some([params |-> params, returned |-> <<>>, raised |-> TRUE,
          failure |-> failure])

\* catch (error) { this.logger.error(...); return []; }
SearchFailed(params, failure) ==
    Some([params |-> params, returned |-> <<>>, raised |-> FALSE,
          failure |-> failure])

RECURSIVE StepsAscending(_)
\* include: { steps: { orderBy: { iterationNumber: 'asc' } } }; steps of one
\* iteration number come in an order the database picks
StepsAscending(steps) ==
    IF steps = {} THEN <<>>
    ELSE LET first == CHOOSE x \in steps :
                          \A y \in steps : x.iterationNumber <= y.iterationNumber
         IN  <<first>> \o StepsAscending(steps \ {first})

\* TrajectoryWithRelations: the row with its steps and its task
WithRelations(t) ==
    [row |-> t,
     steps |-> StepsAscending({ x \in trajectoryStep : x.trajectoryId = t.id }),
     task |-> [description |-> TaskDescription(t.taskId)]]

\* message content: a string, an array of content blocks, or another JSON
\* value, of which `text` holds the JSON text
StringContent(text) == [kind |-> "string", text |-> text, blocks |-> <<>>]
BlockContent(blocks) == [kind |-> "blocks", text |-> "", blocks |-> blocks]
OtherContent(json) == [kind |-> "other", text |-> json, blocks |-> <<>>]

\* a JSON null where an object is expected: reading a property of it throws
Null == [null |-> TRUE]

\* text.slice(0, n)
Slice(text, n) == SubSeq(text, 1, Min(n, Len(text)))

\* text.split('.')[0]
FirstSentence(text) ==
    LET dots == { k \in 1..Len(text) : SubSeq(text, k, k) = "." }
    IN  IF dots = {} THEN text
        ELSE SubSeq(text, 1, (CHOOSE k \in dots : \A j \in dots : k <= j) - 1)

\* firstSentence.length >= 10 && firstSentence.length <= 150
IsKeySentence_inclusive(firstSentence) ==
    Len(firstSentence) >= 10 /\ Len(firstSentence) <= 150

\* firstSentence.length > 10 && firstSentence.length < 150
IsKeySentence(firstSentence) ==
    Len(firstSentence) > 10 /\ Len(firstSentence) < 150

RECURSIVE BlockKeySteps(_)
\* for (const block of msg.content): what it pushes, and whether it got to
\* the end (ok) or threw on the way
BlockKeySteps(blocks) ==
    IF blocks = <<>> THEN [ok |-> TRUE, keySteps |-> <<>>]
    ELSE IF Head(blocks) = Null THEN [ok |-> FALSE, keySteps |-> <<>>]
    ELSE LET block == Head(blocks)
             rest == BlockKeySteps(Tail(blocks))
         IN  [ok |-> rest.ok,
              keySteps |->
                  (IF /\ block.type = "text"
                      /\ block.text # ""
                      /\ IsKeySentence(FirstSentence(block.text))
                   THEN <<FirstSentence(block.text)>> ELSE <<>>)
                  \o rest.keySteps]

RECURSIVE MessageKeySteps(_)
\* for (const msg of step.messagesSnapshot)
MessageKeySteps(messages) ==
    IF messages = <<>> THEN [ok |-> TRUE, keySteps |-> <<>>]
    ELSE IF Head(messages) = Null THEN [ok |-> FALSE, keySteps |-> <<>>]
    ELSE LET msg == Head(messages)
             own == IF msg.role = "assistant" /\ msg.content.kind = "blocks"
                    THEN BlockKeySteps(msg.content.blocks)
                    ELSE [ok |-> TRUE, keySteps |-> <<>>]
             rest == IF own.ok THEN MessageKeySteps(Tail(messages))
                     ELSE [ok |-> FALSE, keySteps |-> <<>>]
         IN  [ok |-> own.ok /\ rest.ok, keySteps |-> own.keySteps \o rest.keySteps]

\* if (step.reasoning) ... else if (Array.isArray(step.messagesSnapshot)) ...
StepKeySteps(step) ==
    IF step.reasoning # None /\ Get(step.reasoning) # ""
    THEN [ok |-> TRUE, keySteps |-> <<Slice(Get(step.reasoning), 200)>>]
    ELSE IF step.messagesSnapshot # None
    THEN MessageKeySteps(Get(step.messagesSnapshot))
    ELSE [ok |-> TRUE, keySteps |-> <<>>]

RECURSIVE AllKeySteps(_)
\* for (const step of trajectory.steps)
AllKeySteps(steps) ==
    IF steps = <<>> THEN [ok |-> TRUE, keySteps |-> <<>>]
    ELSE LET own == StepKeySteps(Head(steps))
             rest == IF own.ok THEN AllKeySteps(Tail(steps))
                     ELSE [ok |-> FALSE, keySteps |-> <<>>]
         IN  [ok |-> own.ok /\ rest.ok, keySteps |-> own.keySteps \o rest.keySteps]

RECURSIVE AddTools(_, _)
\* toolsUsed.add(toolCall.name) for every named tool call, in a Set that
\* keeps the order of first insertion
AddTools(toolsUsed, names) ==
    IF names = <<>> THEN toolsUsed
    ELSE AddTools(IF Head(names) = "" \/ Head(names) \in Range(toolsUsed)
                  THEN toolsUsed ELSE Append(toolsUsed, Head(names)),
                  Tail(names))

RECURSIVE AllTools(_, _)
AllTools(toolsUsed, steps) ==
    IF steps = <<>> THEN toolsUsed
    ELSE AllTools(IF Head(steps).toolCalls = None THEN toolsUsed
                  ELSE AddTools(toolsUsed, Get(Head(steps).toolCalls)),
                  Tail(steps))

\* keySteps.slice(0, 5)
LimitedSteps(keySteps) == Slice(keySteps, 5)

\* condenseTrajectory: the example it builds of a trajectory loaded with its
\* steps and its task; ok is FALSE when it throws instead
condenseTrajectory(trajectory) ==
    LET extracted == AllKeySteps(trajectory.steps)
    IN  [ok |-> extracted.ok,
         taskDescription |-> trajectory.task.description,
         keySteps |-> LimitedSteps(extracted.keySteps),
         toolsUsed |-> AllTools(<<>>, trajectory.steps),
         outcome |-> IF trajectory.row.success THEN "Completed successfully"
                     ELSE "Failed",
         reasoning |->
             IF /\ trajectory.steps # <<>>
                /\ trajectory.steps[1].reasoning # None
                /\ Get(trajectory.steps[1].reasoning) # ""
             THEN Slice(Get(trajectory.steps[1].reasoning), 300)
             ELSE "Systematic approach with observation and verification"]

findSimilar(params, apiOk, dbOk) ==
    /\ UNCHANGED <<recorderVars, storeVars, fewShot, openai, started, embeds,
                   scoreIn, scoreOut, exported, cleaned, last>>
    /\ searches' = searches + 1
    /\ stored' = None
    /\ IF ~isAvailable
       THEN /\ UNCHANGED embeddingCache
            /\ found' = Some([params |-> params, returned |-> <<>>,
                              raised |-> FALSE, failure |-> ""])
       ELSE LET generated == generateEmbedding(params.taskDescription, apiOk)
                topK == IF Truthy(params.topK) THEN Get(params.topK)
                        ELSE fewShot.count
                minSimilarity ==
                    IF Truthy(params.minSimilarity) THEN Get(params.minSimilarity)
                    ELSE IF fewShot.similarityThreshold # 0
                    THEN fewShot.similarityThreshold
                    ELSE 700
                successOnly == params.successOnly # Some(FALSE)
            IN  /\ embeddingCache' = generated.cache
                /\ IF ~generated.ok
                   THEN found' = SearchFailed(params, "embedding")
                   ELSE IF ~dbOk
                   THEN found' = SearchFailed(params, "query")
                   ELSE \E ordered \in OrderedByDistance(
                                          Joined(params, successOnly),
                                          generated.embedding) :
                          LET limited == SubSeq(ordered, 1, Min(topK, Len(ordered)))
                              results == [k \in 1..Len(limited) |->
                                  [trajectory |-> limited[k].t,
                                   similarity |->
                                       Similarity(limited[k].e.embedding,
                                                  generated.embedding)]]
                              kept == FilterBySimilarity(results, minSimilarity)
                              condensed == [k \in 1..Len(kept) |->
                                  condenseTrajectory(
                                      WithRelations(kept[k].trajectory))]
                          IN  IF \E k \in 1..Len(kept) : ~condensed[k].ok
                              THEN found' = SearchFailed(params, "condense")
                              ELSE found' = Some(
                                  [params |-> params,
                                   returned |->
                                       [k \in 1..Len(kept) |->
                                          [trajectory |-> kept[k].trajectory,
                                           similarity |-> kept[k].similarity,
                                           condensedExample |-> condensed[k]]],
                                   raised |-> FALSE,
                                   failure |-> ""])

----------------------------------------------------------------------------
(* calculateQualityScore taken alone *)

\* the trajectories handed to calculateQualityScore
ScoredInterventions == {0, 1, 2, 3, 4}
ScoredErrorRates == {0, 50, 100, 101, 300, 1000}
ScoredClickAccuracies == {None, Some(0), Some(500), Some(799), Some(800), Some(950)}
ScoredIterationCounts == {0, 6, 10, 11, 20, 70}

ScoredTrajectory(success, interventions, errorRate, clickAccuracy, iterationCount) ==
    [taskId |-> "t1",
     modelProvider |-> "anthropic",
     modelName |-> "claude",
     success |-> success,
     startedAt |-> 0,
     completedAt |-> Some(0),
     iterations |-> <<>>,
     metrics |-> [iterationCount |-> iterationCount,
                  toolCallsCount |-> 0,
                  tokenUsage |-> [input |-> 0, output |-> 0, total |-> 0],
                  errorRate |-> errorRate,
                  clickAccuracy |-> clickAccuracy,
                  userInterventions |-> interventions]]

Score ==
    /\ scoreIn # None
    /\ scoreOut = None
    /\ scoreOut' = Some(calculateQualityScore(Get(scoreIn)))
    /\ UNCHANGED <<recorderVars, storeVars, searchVars, started, embeds,
                   searches, scoreIn, exported, cleaned, last>>


----------------------------------------------------------------------------
(* The recorder and the completion of its calls *)

EmptyMap == [x \in {} |-> 0]

\* FewShotConfig when the environment sets only BYTEBOT_USE_FEW_SHOT
DefaultFewShot ==
    [enabled |-> TRUE, count |-> 3, similarityThreshold |-> 700,
     sourceProviders |-> {"anthropic"}]

\* what no specification below changes from its initial value
Idle ==
    /\ paused = FALSE
    /\ activeTrajectories = EmptyMap
    /\ now = 0
    /\ calls = <<>>
    /\ trajectoryStep = {}
    /\ trajectoryEmbedding = {}
    /\ fewShotExample = {}
    /\ embeddingCache = <<>>
    /\ stored = None
    /\ found = None
    /\ started = 0
    /\ embeds = 0
    /\ searches = 0
    /\ scoreOut = None
    /\ exported = None
    /\ cleaned = None
    /\ last = NoEvent

Init ==
    /\ Idle
    /\ config \in [enabled : BOOLEAN,
                   modelProviders : {{}, {"anthropic"}},
                   minDuration : {1},
                   recordFailures : BOOLEAN]
    /\ taskTrajectory = {}
    /\ nextId = 1
    /\ fewShot = DefaultFewShot
    /\ openai \in BOOLEAN
    /\ scoreIn = None

Recording(taskId) == MapHas(activeTrajectories, taskId)

Next ==
    \/ \E taskId \in Tasks, modelProvider \in Providers :
          /\ started < MaxStarts
          /\ startTrajectory(taskId, modelProvider, ModelNameOf[modelProvider])
    \/ \E taskId \in Tasks :
          /\ Recording(taskId) =>
                 activeTrajectories[taskId].metrics.iterationCount < MaxIterations
          /\ \E snapshot \in Snapshots(
                   IF Recording(taskId)
                   THEN activeTrajectories[taskId].metrics.iterationCount + 1
                   ELSE 1) :
                recordIteration(taskId, snapshot)
    \/ \E taskId \in Tasks :
          /\ Recording(taskId) =>
                 activeTrajectories[taskId].metrics.userInterventions
                     < MaxInterventions
          /\ recordUserIntervention(taskId)
    \/ \E taskId \in Tasks, success \in BOOLEAN,
          additionalMetrics \in AdditionalMetrics :
          /\ Len(calls) < MaxCalls
          /\ completeTrajectory(taskId, success, additionalMetrics)
    \/ \E taskId \in Tasks : cancelTrajectory(taskId)
    \/ pause
    \/ resume
    \/ \E i \in 1..Len(calls), dbOk \in BOOLEAN : CreateResolves(i, dbOk)
    \/ \E i \in 1..Len(calls), apiOk \in BOOLEAN : EmbedResolves(i, apiOk)
    \/ \E i \in 1..Len(calls), dbOk \in BOOLEAN : UpsertResolves(i, dbOk)
    \/ Tick

Spec == Init /\ [][Next]_vars

----------------------------------------------------------------------------
(* calculateQualityScore over its inputs *)

InitScore ==
    /\ Idle
    /\ config = [enabled |-> TRUE, modelProviders |-> {}, minDuration |-> 1,
                 recordFailures |-> TRUE]
    /\ taskTrajectory = {}
    /\ nextId = 1
    /\ fewShot = DefaultFewShot
    /\ openai = TRUE
    /\ \E success \in BOOLEAN,
          interventions \in ScoredInterventions,
          errorRate \in ScoredErrorRates,
          clickAccuracy \in ScoredClickAccuracies,
          iterationCount \in ScoredIterationCounts :
          scoreIn = Some(ScoredTrajectory(success, interventions, errorRate,
                                          clickAccuracy, iterationCount))

NextScore == Score

SpecScore == InitScore /\ [][NextScore]_vars

----------------------------------------------------------------------------
(* storeEmbedding and findSimilar over a stored set of trajectories *)

\* a row as completeTrajectory writes it for a run without iterations
StoredTrajectory(id, taskId, modelProvider, success, interventions) ==
    LET started0 == NewTrajectoryData(taskId, modelProvider,
                                      ModelNameOf[modelProvider])
        completed == [started0 EXCEPT !.success = success,
                                      !.completedAt = Some(now),
                                      !.metrics.userInterventions = interventions]
    IN  TrajectoryRow(
            TrajectoryCreateData(completed, calculateQualityScore(completed)),
            id)

StoredSets ==
    LET r1 == StoredTrajectory(1, "t1", "anthropic", TRUE, 0)
        r2 == StoredTrajectory(2, "t2", "anthropic", FALSE, 0)
        r3 == StoredTrajectory(3, "t3", "openai", TRUE, 1)
        r4 == StoredTrajectory(4, "t4", "anthropic", TRUE, 2)
    IN  { {}, {r1, r2, r3, r4} }

\* the ids storeEmbedding is called with: those of StoredSets and one of no row
TrajectoryIds == 1..5

SearchParams ==
    { [NoParams EXCEPT !.taskDescription = text] : text \in Texts }
    \cup { [NoParams EXCEPT !.taskDescription = "open theme settings",
                            !.minSimilarity = minSimilarity]
           : minSimilarity \in {Some(0), Some(500), Some(900)} }
    \cup { [NoParams EXCEPT !.taskDescription = "open theme settings",
                            !.minSimilarity = Some(500),
                            !.topK = Some(1)],
           [NoParams EXCEPT !.taskDescription = "open settings",
                            !.modelProvider = Some("openai")],
           [NoParams EXCEPT !.taskDescription = "open settings",
                            !.minQuality = Some(7000)],
           [NoParams EXCEPT !.taskDescription = "open settings",
                            !.successOnly = Some(FALSE)],
           [NoParams EXCEPT !.taskDescription = "open settings",
                            !.successOnly = Some(TRUE)] }

\* FewShotConfig: the default, the feature off, no source-provider list,
\* and BYTEBOT_FEW_SHOT_SIMILARITY set to 0
FewShotConfigs ==
    { DefaultFewShot,
      [DefaultFewShot EXCEPT !.enabled = FALSE],
      [DefaultFewShot EXCEPT !.sourceProviders = {}],
      [DefaultFewShot EXCEPT !.sourceProviders = {},
                             !.similarityThreshold = 0] }

InitSearch ==
    /\ Idle
    /\ config = [enabled |-> TRUE, modelProviders |-> {}, minDuration |-> 1,
                 recordFailures |-> TRUE]
    /\ taskTrajectory \in StoredSets
    /\ nextId = 6
    /\ fewShot \in FewShotConfigs
    /\ openai \in BOOLEAN
    /\ scoreIn = None

NextSearch ==
    \/ \E trajectoryId \in TrajectoryIds, taskDescription \in Texts,
          apiOk \in BOOLEAN :
          \E dbOk \in IF apiOk THEN BOOLEAN ELSE {TRUE} :
             /\ embeds < MaxEmbeds
             /\ storeEmbedding(trajectoryId, taskDescription, apiOk, dbOk)
    \/ \E params \in SearchParams, apiOk \in BOOLEAN :
          \E dbOk \in IF apiOk THEN BOOLEAN ELSE {TRUE} :
             /\ searches < MaxSearches
             /\ findSimilar(params, apiOk, dbOk)

SpecSearch == InitSearch /\ [][NextSearch]_vars


----------------------------------------------------------------------------
(* The exporter's cleanup over a stored set of trajectories; time in days *)

\* const { olderThanDays = 90, maxQuality = 0.3, keepCount = 100 } = options
DefaultOlderThanDays == 90
DefaultMaxQuality == 3000
DefaultKeepCount == 100

OlderThanDays(options) ==
    IF options.olderThanDays = None THEN DefaultOlderThanDays
    ELSE Get(options.olderThanDays)

MaxQuality(options) ==
    IF options.maxQuality = None THEN DefaultMaxQuality
    ELSE Get(options.maxQuality)

KeepCount(options) ==
    IF options.keepCount = None THEN DefaultKeepCount
    ELSE Get(options.keepCount)

\* cutoffDate.setDate(cutoffDate.getDate() - olderThanDays)
CutoffDate(options) == now - OlderThanDays(options)

\* a deleteMany that takes the rows up to and including the cutoff
DeleteWhere_atCutoff(t, cutoffDate, maxQuality) ==
    /\ t.createdAt <= cutoffDate
    /\ \/ (t.qualityScore # None /\ Get(t.qualityScore) <= maxQuality)
       \/ t.qualityScore = None

\* where: { AND: [{ createdAt: { lt: cutoffDate } },
\*                { OR: [{ qualityScore: { lte: maxQuality } },
\*                       { qualityScore: null }] }] }
DeleteWhere(t, cutoffDate, maxQuality) ==
    /\ t.createdAt < cutoffDate
    /\ \/ (t.qualityScore # None /\ Get(t.qualityScore) <= maxQuality)
       \/ t.qualityScore = None

\* a deleteMany whose foreign keys do not cascade
DeleteMany_noCascade(doomed) ==
    /\ taskTrajectory' = taskTrajectory \ doomed
    /\ UNCHANGED <<trajectoryStep, trajectoryEmbedding, fewShotExample>>

\* prisma.taskTrajectory.deleteMany, with ON DELETE CASCADE of
\* TrajectoryStep_trajectoryId_fkey, TrajectoryEmbedding_trajectoryId_fkey
\* and FewShotExample_trajectoryId_fkey
DeleteMany(doomed) ==
    LET ids == { t.id : t \in doomed }
    IN  /\ taskTrajectory' = taskTrajectory \ doomed
        /\ trajectoryStep' =
               { x \in trajectoryStep : x.trajectoryId \notin ids }
        /\ trajectoryEmbedding' =
               { e \in trajectoryEmbedding : e.trajectoryId \notin ids }
        /\ fewShotExample' =
               { x \in fewShotExample : x.trajectoryId \notin ids }

\* cleanup has no try/catch: a failing deleteMany rejects the call
CleanupFailed(options) ==
    Some([options |-> options, before |-> taskTrajectory,
          after |-> taskTrajectory, cutoffDate |-> CutoffDate(options),
          count |-> 0, raised |-> TRUE, failure |-> "delete"])

cleanup(options, dbOk) ==
    /\ UNCHANGED <<recorderVars, nextId, searchVars, started, embeds, searches,
                   scoreIn, scoreOut, exported>>
    /\ last' = NoEvent
    /\ LET doomed == { t \in taskTrajectory :
                         DeleteWhere(t, CutoffDate(options), MaxQuality(options)) }
       IN  IF dbOk
           THEN /\ DeleteMany(doomed)
                /\ cleaned' = Some([options |-> options,
                                    before |-> taskTrajectory,
                                    after |-> taskTrajectory',
                                    cutoffDate |-> CutoffDate(options),
                                    count |-> Cardinality(doomed),
                                    raised |-> FALSE,
                                    failure |-> ""])
           ELSE /\ UNCHANGED <<taskTrajectory, trajectoryStep,
                               trajectoryEmbedding, fewShotExample>>
                /\ cleaned' = CleanupFailed(options)

\* what saveTrajectory hands to create for a run of one iteration
StoredData(taskId, success) ==
    LET started0 == NewTrajectoryData(taskId, "anthropic",
                                      ModelNameOf["anthropic"])
        snapshot == CHOOSE x \in Snapshots(1) : TRUE
        completed == [started0 EXCEPT !.success = success,
                                      !.completedAt = Some(0),
                                      !.iterations = <<snapshot>>,
                                      !.metrics.iterationCount = 1]
    IN  TrajectoryCreateData(completed, calculateQualityScore(completed))

\* rows of every age and quality around the defaults: without a score, at
\* the default maxQuality, just above it, created at the default cutoff,
\* the day before it, and yesterday
CleanupRows ==
    LET row(id, taskId, createdAt, qualityScore) ==
            [TrajectoryRow(StoredData(taskId, TRUE), id)
                 EXCEPT !.createdAt = createdAt,
                        !.qualityScore = qualityScore]
    IN  { row(1, "t1", 0, None),
          row(2, "t2", 0, Some(3000)),
          row(3, "t3", 0, Some(3001)),
          row(4, "t4", 10, Some(0)),
          row(5, "t5", 9, Some(0)),
          row(6, "t6", 99, None) }

CleanupOptions ==
    [olderThanDays : {None, Some(0), Some(1)},
     maxQuality : {None, Some(0), Some(ScoreOne)},
     keepCount : {None, Some(2)}]

InitCleanup ==
    /\ paused = FALSE
    /\ activeTrajectories = EmptyMap
    /\ now = 100
    /\ calls = <<>>
    /\ config = [enabled |-> TRUE, modelProviders |-> {}, minDuration |-> 1,
                 recordFailures |-> TRUE]
    /\ taskTrajectory \in SUBSET CleanupRows
    /\ trajectoryStep =
           UNION { StepRows(StoredData(t.taskId, TRUE), t.id)
                   : t \in taskTrajectory }
    /\ trajectoryEmbedding =
           { [id |-> t.id + 6, trajectoryId |-> t.id,
              taskDescription |-> "open settings",
              embedding |-> EmbeddingOf("open settings")]
             : t \in { x \in taskTrajectory : x.id % 2 = 1 } }
    /\ fewShotExample = {}
    /\ nextId = 13
    /\ fewShot = DefaultFewShot
    /\ openai = TRUE
    /\ embeddingCache = <<>>
    /\ stored = None
    /\ found = None
    /\ started = 0
    /\ embeds = 0
    /\ searches = 0
    /\ scoreIn = None
    /\ scoreOut = None
    /\ exported = None
    /\ cleaned = None
    /\ last = NoEvent

NextCleanup ==
    \E options \in CleanupOptions, dbOk \in BOOLEAN : cleanup(options, dbOk)

SpecCleanup == InitCleanup /\ [][NextCleanup]_vars


----------------------------------------------------------------------------
(* One task recorded and completed repeatedly, with overlapping             *)
(* completeTrajectory calls, while cleanup runs; one unit of time for both  *)

MaxOverlap == 2

\* a cleanup that takes every scored row older than now, and the default one
OverlapCleanupOptions ==
    { [olderThanDays |-> Some(0), maxQuality |-> Some(ScoreOne),
       keepCount |-> None],
      [olderThanDays |-> None, maxQuality |-> None, keepCount |-> None] }

InitOverlap ==
    /\ Idle
    /\ config = [enabled |-> TRUE, modelProviders |-> {}, minDuration |-> 0,
                 recordFailures |-> TRUE]
    /\ taskTrajectory = {}
    /\ nextId = 1
    /\ fewShot = DefaultFewShot
    /\ openai = TRUE
    /\ scoreIn = None

NextOverlap ==
    \/ /\ started < MaxStarts
       /\ startTrajectory("t1", "anthropic", ModelNameOf["anthropic"])
    \/ /\ Recording("t1")
       /\ activeTrajectories["t1"].metrics.iterationCount < MaxIterations
       /\ \E snapshot \in Snapshots(
                activeTrajectories["t1"].metrics.iterationCount + 1) :
             recordIteration("t1", snapshot)
    \/ \E success \in BOOLEAN :
          /\ Recording("t1")
          /\ Len(calls) < MaxOverlap
          /\ completeTrajectory("t1", success, NoMetrics)
    \/ \E i \in 1..Len(calls), dbOk \in BOOLEAN : CreateResolves(i, dbOk)
    \/ \E i \in 1..Len(calls), apiOk \in BOOLEAN : EmbedResolves(i, apiOk)
    \/ \E i \in 1..Len(calls), dbOk \in BOOLEAN : UpsertResolves(i, dbOk)
    \/ Tick
    \/ \E options \in OverlapCleanupOptions, dbOk \in BOOLEAN :
          /\ taskTrajectory # {}
          /\ cleanup(options, dbOk)

SpecOverlap == InitOverlap /\ [][NextOverlap]_vars


----------------------------------------------------------------------------
(* Recording one task to the end and searching for it afterwards *)

MaxRecorded == 3

\* a search for the description of task t1 and one for another description
EndToEndParams ==
    { [NoParams EXCEPT !.taskDescription = TaskDescription("t1")],
      [NoParams EXCEPT !.taskDescription = "change theme"] }

InitEndToEnd ==
    /\ Idle
    /\ config = [enabled |-> TRUE, modelProviders |-> {}, minDuration |-> 1,
                 recordFailures |-> TRUE]
    /\ taskTrajectory = {}
    /\ nextId = 1
    /\ fewShot = DefaultFewShot
    /\ openai = TRUE
    /\ scoreIn = None

NextEndToEnd ==
    \/ /\ started < MaxStarts
       /\ startTrajectory("t1", "anthropic", ModelNameOf["anthropic"])
    \/ /\ Recording("t1")
       /\ activeTrajectories["t1"].metrics.iterationCount < MaxRecorded
       /\ \E snapshot \in Snapshots(
                activeTrajectories["t1"].metrics.iterationCount + 1) :
             recordIteration("t1", snapshot)
    \/ \E success \in BOOLEAN :
          /\ Recording("t1")
          /\ Len(calls) < MaxCalls
          /\ completeTrajectory("t1", success, NoMetrics)
    \/ \E i \in 1..Len(calls), dbOk \in BOOLEAN : CreateResolves(i, dbOk)
    \/ \E i \in 1..Len(calls), apiOk \in BOOLEAN : EmbedResolves(i, apiOk)
    \/ \E i \in 1..Len(calls), dbOk \in BOOLEAN : UpsertResolves(i, dbOk)
    \/ Tick
    \/ \E params \in EndToEndParams, apiOk \in BOOLEAN, dbOk \in BOOLEAN :
          /\ searches < MaxSearches
          /\ findSimilar(params, apiOk, dbOk)

SpecEndToEnd == InitEndToEnd /\ [][NextEndToEnd]_vars

\* the same where time passes and the embedding provider and the upsert
\* always answer in the end; whether prisma.taskTrajectory.create answers is
\* the store's to decide, and completeTrajectory awaits it without a timer,
\* so no step of the recorder is due while it is silent
SpecEndToEndFair ==
    /\ SpecEndToEnd
    /\ WF_vars(Tick)
    /\ WF_vars(\E i \in 1..Len(calls), apiOk \in BOOLEAN : EmbedResolves(i, apiOk))
    /\ WF_vars(\E i \in 1..Len(calls), dbOk \in BOOLEAN : UpsertResolves(i, dbOk))


----------------------------------------------------------------------------
(* The running metrics of one recording *)

MaxCounted == 3
MaxCountedInterventions == 2

\* IterationSnapshots with and without tool calls and with different usage
CountedSnapshots(n) ==
    { [iterationNumber |-> n,
       systemPrompt |-> "prompt A",
       messages |-> <<>>,
       reasoning |-> None,
       tokenUsage |-> [input |-> 3, output |-> 2],
       toolCalls |-> Some(<<"computer_click_mouse">>)],
      [iterationNumber |-> n,
       systemPrompt |-> "prompt A",
       messages |-> <<>>,
       reasoning |-> None,
       tokenUsage |-> [input |-> 5, output |-> 0],
       toolCalls |-> None],
      [iterationNumber |-> n,
       systemPrompt |-> "prompt A",
       messages |-> <<>>,
       reasoning |-> None,
       tokenUsage |-> [input |-> 1, output |-> 4],
       toolCalls |-> Some(<<"computer_type_text", "computer_screenshot">>)] }

InitCounters ==
    /\ Idle
    /\ config = [enabled |-> TRUE, modelProviders |-> {}, minDuration |-> 1,
                 recordFailures |-> TRUE]
    /\ taskTrajectory = {}
    /\ nextId = 1
    /\ fewShot = DefaultFewShot
    /\ openai = TRUE
    /\ scoreIn = None

NextCounters ==
    \/ /\ started < MaxStarts
       /\ startTrajectory("t1", "anthropic", ModelNameOf["anthropic"])
    \/ /\ Recording("t1")
       /\ activeTrajectories["t1"].metrics.iterationCount < MaxCounted
       /\ \E snapshot \in CountedSnapshots(
                activeTrajectories["t1"].metrics.iterationCount + 1) :
             recordIteration("t1", snapshot)
    \/ /\ Recording("t1")
       /\ activeTrajectories["t1"].metrics.userInterventions
              < MaxCountedInterventions
       /\ recordUserIntervention("t1")
    \/ cancelTrajectory("t1")

SpecCounters == InitCounters /\ [][NextCounters]_vars


----------------------------------------------------------------------------
(* Recording around pause and resume: iterations, interventions and the    *)
(* completion of a recording are called while the recorder is paused      *)

InitPause ==
    /\ Idle
    /\ config \in [enabled : {TRUE},
                   modelProviders : {{}, {"anthropic"}},
                   minDuration : {1},
                   recordFailures : {TRUE}]
    /\ taskTrajectory = {}
    /\ nextId = 1
    /\ fewShot = DefaultFewShot
    /\ openai = TRUE
    /\ scoreIn = None

NextPause ==
    \/ \E taskId \in Tasks, modelProvider \in Providers :
          /\ started < MaxStarts
          /\ startTrajectory(taskId, modelProvider, ModelNameOf[modelProvider])
    \/ pause
    \/ resume
    \/ \E taskId \in Tasks :
          /\ paused
          /\ Recording(taskId)
          /\ activeTrajectories[taskId].metrics.iterationCount < MaxIterations
          /\ \E snapshot \in Snapshots(
                   activeTrajectories[taskId].metrics.iterationCount + 1) :
                recordIteration(taskId, snapshot)
    \/ \E taskId \in Tasks :
          /\ paused
          /\ Recording(taskId)
          /\ activeTrajectories[taskId].metrics.userInterventions
                 < MaxInterventions
          /\ recordUserIntervention(taskId)
    \/ \E taskId \in Tasks :
          /\ paused
          /\ Len(calls) < MaxCalls
          /\ completeTrajectory(taskId, TRUE, NoMetrics)
    \/ \E i \in 1..Len(calls) : paused /\ CreateResolves(i, TRUE)
    \/ \E i \in 1..Len(calls) : paused /\ EmbedResolves(i, TRUE)
    \/ \E i \in 1..Len(calls) : paused /\ UpsertResolves(i, TRUE)
    \/ Tick

SpecPause == InitPause /\ [][NextPause]_vars


----------------------------------------------------------------------------
(* The exporter: exportForFineTuning and exportStatistics *)

\* const { format, modelProvider, minQuality = 0.7, successOnly = true,
\*         limit } = options
DefaultMinQuality == 7000

ExportMinQuality(options) ==
    IF options.minQuality = None THEN DefaultMinQuality
    ELSE Get(options.minQuality)

ExportSuccessOnly(options) ==
    IF options.successOnly = None THEN TRUE ELSE Get(options.successOnly)

\* a findMany whose quality condition lets rows without a score through
ExportWhere_nullPasses(t, options) ==
    /\ ExportSuccessOnly(options) => t.success
    /\ (ExportMinQuality(options) # 0 /\ t.qualityScore # None)
           => Get(t.qualityScore) >= ExportMinQuality(options)
    /\ (options.modelProvider # None /\ Get(options.modelProvider) # "")
           => t.modelProvider = Get(options.modelProvider)

\* where: { success: successOnly ? true : undefined,
\*          qualityScore: minQuality ? { gte: minQuality } : undefined,
\*          modelProvider: modelProvider || undefined }
\* (a condition that is undefined is no condition; gte is false of null)
ExportWhere(t, options) ==
    /\ ExportSuccessOnly(options) => t.success
    /\ ExportMinQuality(options) # 0 =>
           /\ t.qualityScore # None
           /\ Get(t.qualityScore) >= ExportMinQuality(options)
    /\ (options.modelProvider # None /\ Get(options.modelProvider) # "")
           => t.modelProvider = Get(options.modelProvider)

\* the place of a row under ORDER BY "qualityScore" DESC: PostgreSQL puts
\* rows without a value before all others when the order is descending
QualityKey(t) ==
    IF t.qualityScore = None THEN ScoreOne + 1 ELSE Get(t.qualityScore)

RECURSIVE OrderedByQuality(_)
\* orderBy: { qualityScore: 'desc' }: the rows in every order in which the
\* score does not increase (rows of equal score come in any order)
OrderedByQuality(rows) ==
    IF rows = {} THEN { <<>> }
    ELSE UNION { { <<t>> \o rest : rest \in OrderedByQuality(rows \ {t}) }
                 : t \in { x \in rows :
                             \A y \in rows : QualityKey(x) >= QualityKey(y) } }

\* take: limit
Take(ordered, limit) ==
    IF limit = None THEN ordered
    ELSE SubSeq(ordered, 1, Min(Get(limit), Len(ordered)))

RECURSIVE JoinLines(_)
\* texts.join('\n')
JoinLines(texts) ==
    IF texts = <<>> THEN ""
    ELSE IF Len(texts) = 1 THEN texts[1]
    ELSE texts[1] \o "\n" \o JoinLines(Tail(texts))

\* a conversion that writes a placeholder for every image block
convertContentToOpenAI_placeholders(content) ==
    IF content.kind = "string" THEN content.text
    ELSE IF content.kind = "blocks"
    THEN LET kept == SelectSeq(content.blocks,
                               LAMBDA block : block.type \in {"text", "image"})
         IN  JoinLines([k \in 1..Len(kept) |->
                          IF kept[k].type = "image" THEN "[image]"
                          ELSE kept[k].text])
    ELSE content.text

convertContentToOpenAI(content) ==
    IF content.kind = "string" THEN content.text
    ELSE IF content.kind = "blocks"
    THEN LET kept == SelectSeq(content.blocks,
                               LAMBDA block : block.type = "text")
         IN  JoinLines([k \in 1..Len(kept) |-> kept[k].text])
    ELSE content.text

RECURSIVE ConvertMessages(_)
\* the inner loop of convertToOpenAIFormat over one messagesSnapshot
ConvertMessages(messages) ==
    IF messages = <<>> THEN <<>>
    ELSE LET msg == Head(messages)
             rest == ConvertMessages(Tail(messages))
         IN  IF msg.role = "assistant"
             THEN <<[role |-> "assistant",
                     content |-> convertContentToOpenAI(msg.content)]>> \o rest
             ELSE IF msg.role = "user"
             THEN <<[role |-> "user",
                     content |-> convertContentToOpenAI(msg.content)]>> \o rest
             ELSE rest

RECURSIVE ConvertSteps(_)
\* for (const step of trajectory.steps): a messagesSnapshot that is not an
\* array (None) is passed over
ConvertSteps(steps) ==
    IF steps = <<>> THEN <<>>
    ELSE (IF Head(steps).messagesSnapshot = None THEN <<>>
          ELSE ConvertMessages(Get(Head(steps).messagesSnapshot)))
         \o ConvertSteps(Tail(steps))

convertToOpenAIFormat(trajectory) ==
    (IF Len(trajectory.steps) > 0
     THEN <<[role |-> "system", content |-> trajectory.steps[1].systemPrompt]>>
     ELSE <<>>)
    \o <<[role |-> "user", content |-> trajectory.task.description]>>
    \o ConvertSteps(trajectory.steps)

RECURSIVE RawMessages(_)
\* messages.push(...step.messagesSnapshot) for every step
RawMessages(steps) ==
    IF steps = <<>> THEN <<>>
    ELSE (IF Head(steps).messagesSnapshot = None THEN <<>>
          ELSE Get(Head(steps).messagesSnapshot))
         \o RawMessages(Tail(steps))

convertToAnthropicFormat(trajectory) == RawMessages(trajectory.steps)

\* a Gemini format that keeps the content blocks
convertToGeminiFormat_native(trajectory) == RawMessages(trajectory.steps)

convertToGeminiFormat(trajectory) == convertToOpenAIFormat(trajectory)

\* switch (format)
ConvertTo(format, trajectory) ==
    CASE format = "openai" -> convertToOpenAIFormat(trajectory)
      [] format = "gemini" -> convertToGeminiFormat(trajectory)
      [] format = "anthropic" -> convertToAnthropicFormat(trajectory)

RECURSIVE SumScores(_)
\* qualityScores.reduce((a, b) => a + b, 0)
SumScores(scores) ==
    IF scores = <<>> THEN 0 ELSE Head(scores) + SumScores(Tail(scores))

\* exportData of exportForFineTuning; rates in thousandths, rounded down
ExportData(format, trajectories) ==
    LET successful == SelectSeq(trajectories, LAMBDA t : t.success)
        scored == SelectSeq(trajectories, LAMBDA t : t.qualityScore # None)
        qualityScores == [k \in 1..Len(scored) |-> Get(scored[k].qualityScore)]
    IN  [format |-> format,
         trajectories |->
             [k \in 1..Len(trajectories) |->
                [messages |-> ConvertTo(format, WithRelations(trajectories[k])),
                 metadata |-> [taskId |-> trajectories[k].taskId,
                               modelProvider |-> trajectories[k].modelProvider,
                               success |-> trajectories[k].success,
                               qualityScore |-> trajectories[k].qualityScore]]],
         metadata |->
             [exportDate |-> now,
              totalTrajectories |-> Len(trajectories),
              successRate |->
                  IF Len(trajectories) > 0
                  THEN (1000 * Len(successful)) \div Len(trajectories) ELSE 0,
              averageQuality |->
                  IF Len(qualityScores) > 0
                  THEN SumScores(qualityScores) \div Len(qualityScores) ELSE 0]]

\* writeExportFile: one line per trajectory for 'openai', else one document
ExportFile(exportData, outputPath) ==
    [path |-> outputPath,
     jsonl |-> exportData.format = "openai",
     entries |-> Len(exportData.trajectories)]

\* an export that answers an empty result when the read fails
ExportFailed_returnsEmpty(op, arguments, failure) ==
    Some([op |-> op, arguments |-> arguments, store |-> taskTrajectory,
          raised |-> FALSE, failure |-> failure,
          data |-> Some(ExportData("openai", <<>>)), file |-> None])

\* the exporter has no try/catch: a rejected read, or a failed write of the
\* file, rejects the call and nothing is returned
ExportFailed(op, arguments, failure) ==
    Some([op |-> op, arguments |-> arguments, store |-> taskTrajectory,
          raised |-> TRUE, failure |-> failure, data |-> None, file |-> None])

exportForFineTuning(options, dbOk, fsOk) ==
    /\ UNCHANGED <<recorderVars, storeVars, searchVars, started, embeds,
                   searches, scoreIn, scoreOut, cleaned>>
    /\ last' = NoEvent
    /\ IF ~dbOk
       THEN exported' = ExportFailed("exportForFineTuning", options, "read")
       ELSE \E ordered \in OrderedByQuality(
                               { t \in taskTrajectory : ExportWhere(t, options) }) :
              LET trajectories == Take(ordered, options.limit)
                  exportData == ExportData(options.format, trajectories)
              IN  IF options.outputPath # None /\ ~fsOk
                  THEN exported' = ExportFailed("exportForFineTuning", options,
                                                "write")
                  ELSE exported' =
                           Some([op |-> "exportForFineTuning",
                                 arguments |-> options,
                                 store |-> taskTrajectory,
                                 raised |-> FALSE,
                                 failure |-> "",
                                 data |-> Some(exportData),
                                 file |-> IF options.outputPath = None THEN None
                                          ELSE Some(ExportFile(
                                                   exportData,
                                                   Get(options.outputPath)))])

\* the CASE of the quality distribution query
QualityTier(score) ==
    IF score >= 9000 THEN "excellent"
    ELSE IF score >= 7000 THEN "good"
    ELSE IF score >= 5000 THEN "fair"
    ELSE "poor"

\* the five queries of exportStatistics and the stats built from them; an
\* average is the pair of the sum and the count, or None over no value
Statistics ==
    LET scoredRows == { t \in taskTrajectory : t.qualityScore # None }
        total == Cardinality(taskTrajectory)
        successful == Cardinality({ t \in taskTrajectory : t.success })
    IN  [summary |->
             [total |-> total,
              successful |-> successful,
              successRate |-> IF total > 0
                              THEN (2000 * successful + total) \div (2 * total)
                              ELSE 0],
         byProvider |->
             { [provider |-> p,
                count |-> Cardinality({ t \in taskTrajectory :
                                          t.modelProvider = p }),
                scored |-> Cardinality({ t \in scoredRows :
                                           t.modelProvider = p })]
               : p \in { t.modelProvider : t \in taskTrajectory } },
         qualityDistribution |->
             { [quality_tier |-> tier,
                count |-> Cardinality({ t \in scoredRows :
                                          QualityTier(Get(t.qualityScore)) = tier })]
               : tier \in { QualityTier(Get(t.qualityScore)) : t \in scoredRows } }]

exportStatistics(outputPath, dbOk, fsOk) ==
    /\ UNCHANGED <<recorderVars, storeVars, searchVars, started, embeds,
                   searches, scoreIn, scoreOut, cleaned>>
    /\ last' = NoEvent
    /\ IF ~dbOk
       THEN exported' = ExportFailed("exportStatistics", outputPath, "read")
       ELSE IF outputPath # None /\ ~fsOk
       THEN exported' = ExportFailed("exportStatistics", outputPath, "write")
       ELSE exported' =
                Some([op |-> "exportStatistics",
                      arguments |-> outputPath,
                      store |-> taskTrajectory,
                      raised |-> FALSE,
                      failure |-> "",
                      data |-> Some(Statistics),
                      file |-> IF outputPath = None THEN None
                               ELSE Some([path |-> Get(outputPath),
                                          jsonl |-> FALSE,
                                          entries |-> 1])])

\* stored rows of both providers, of equal and different scores, one of them
\* of a failed run (without a score)
ExportRows ==
    { [StoredTrajectory(1, "t1", "anthropic", TRUE, 0) EXCEPT !.iterationCount = 2],
      StoredTrajectory(2, "t2", "anthropic", TRUE, 1),
      [StoredTrajectory(3, "t3", "openai", TRUE, 0) EXCEPT !.iterationCount = 1],
      [StoredTrajectory(4, "t4", "anthropic", FALSE, 0) EXCEPT !.iterationCount = 1],
      StoredTrajectory(5, "t5", "anthropic", TRUE, 2) }

\* a step row as the exporter reads it
ExportStep(trajectoryId, position, iterationNumber, prompt, snapshot) ==
    [trajectoryId |-> trajectoryId,
     position |-> position,
     iterationNumber |-> iterationNumber,
     systemPrompt |-> prompt,
     messagesSnapshot |-> snapshot,
     reasoning |-> None,
     toolCalls |-> None,
     tokenUsageInput |-> 0,
     tokenUsageOutput |-> 0]

\* the steps of the rows of ExportRows: trajectory 1 has two steps, written
\* in the order 2, 1, whose messages carry string content, text, tool-use
\* and image blocks, a message of another role and one with other content;
\* the step of trajectory 3 has a snapshot that is not an array
ExportSteps ==
    { ExportStep(1, 1, 2, "prompt B",
          Some(<<[role |-> "user",
                  content |-> BlockContent(<<[type |-> "image", text |-> ""]>>)],
                 [role |-> "assistant",
                  content |-> BlockContent(<<[type |-> "text", text |-> "done"],
                                             [type |-> "image", text |-> ""],
                                             [type |-> "text", text |-> "bye"]>>)],
                 [role |-> "tool",
                  content |-> StringContent("ok")],
                 [role |-> "user",
                  content |-> OtherContent("{\"a\":1}")]>>)),
      ExportStep(1, 2, 1, "prompt A",
          Some(<<[role |-> "user", content |-> StringContent("open settings")],
                 [role |-> "assistant",
                  content |-> BlockContent(<<[type |-> "text", text |-> "click"],
                                             [type |-> "tool_use", text |-> ""]>>)]>>)),
      ExportStep(3, 1, 1, "prompt A", None),
      ExportStep(4, 1, 1, "prompt A",
          Some(<<[role |-> "assistant", content |-> StringContent("failed")]>>)) }

ExportOptions ==
    [format : {"openai", "gemini", "anthropic"},
     modelProvider : {None, Some("anthropic")},
     minQuality : {None, Some(0), Some(8000)},
     successOnly : {None, Some(FALSE)},
     limit : {None, Some(1), Some(2)},
     outputPath : {None, Some("training.jsonl")}]

InitExport ==
    /\ paused = FALSE
    /\ activeTrajectories = EmptyMap
    /\ now = 0
    /\ calls = <<>>
    /\ config = [enabled |-> TRUE, modelProviders |-> {}, minDuration |-> 1,
                 recordFailures |-> TRUE]
    /\ taskTrajectory \in SUBSET ExportRows
    /\ trajectoryStep =
           { x \in ExportSteps :
               \E t \in taskTrajectory : t.id = x.trajectoryId }
    /\ trajectoryEmbedding = {}
    /\ fewShotExample = {}
    /\ nextId = 6
    /\ fewShot = DefaultFewShot
    /\ openai = TRUE
    /\ embeddingCache = <<>>
    /\ stored = None
    /\ found = None
    /\ started = 0
    /\ embeds = 0
    /\ searches = 0
    /\ scoreIn = None
    /\ scoreOut = None
    /\ exported = None
    /\ cleaned = None
    /\ last = NoEvent

\* one call of the exporter over each store: a call reads the store and
\* leaves it as it is, so a second call sees what the first one saw
NextExport ==
    \/ \E options \in ExportOptions, dbOk \in BOOLEAN, fsOk \in BOOLEAN :
          /\ exported = None
          /\ exportForFineTuning(options, dbOk, fsOk)
    \/ \E outputPath \in {None, Some("stats.json")},
          dbOk \in BOOLEAN, fsOk \in BOOLEAN :
          /\ exported = None
          /\ exportStatistics(outputPath, dbOk, fsOk)
    \/ \E options \in OverlapCleanupOptions, dbOk \in BOOLEAN :
          /\ exported = None
          /\ cleaned = None
          /\ cleanup(options, dbOk)

SpecExport == InitExport /\ [][NextExport]_vars


----------------------------------------------------------------------------
(* One recording that is completed, and cancelled at any moment, also     *)
(* while the completion awaits the store                                   *)

InitCancel ==
    /\ Idle
    /\ config = [enabled |-> TRUE, modelProviders |-> {}, minDuration |-> 1,
                 recordFailures |-> TRUE]
    /\ taskTrajectory = {}
    /\ nextId = 1
    /\ fewShot = DefaultFewShot
    /\ openai \in BOOLEAN
    /\ scoreIn = None

NextCancel ==
    \/ /\ started = 0
       /\ startTrajectory("t1", "anthropic", ModelNameOf["anthropic"])
    \/ /\ Recording("t1")
       /\ activeTrajectories["t1"].metrics.iterationCount < MaxRecorded
       /\ \E snapshot \in CountedSnapshots(
                activeTrajectories["t1"].metrics.iterationCount + 1) :
             recordIteration("t1", snapshot)
    \/ \E success \in BOOLEAN :
          /\ Recording("t1")
          /\ Len(calls) < MaxCalls
          /\ completeTrajectory("t1", success, NoMetrics)
    \/ /\ started > 0
       /\ cancelTrajectory("t1")
    \/ \E i \in 1..Len(calls), dbOk \in BOOLEAN : CreateResolves(i, dbOk)
    \/ \E i \in 1..Len(calls), apiOk \in BOOLEAN : EmbedResolves(i, apiOk)
    \/ \E i \in 1..Len(calls), dbOk \in BOOLEAN : UpsertResolves(i, dbOk)
    \/ Tick

SpecCancel == InitCancel /\ [][NextCancel]_vars

----------------------------------------------------------------------------
(* The embedding cache under a run of storeEmbedding and findSimilar calls *)

MaxCacheCalls == 4

InitCache ==
    /\ Idle
    /\ config = [enabled |-> TRUE, modelProviders |-> {}, minDuration |-> 1,
                 recordFailures |-> TRUE]
    /\ taskTrajectory \in StoredSets \ {{}}
    /\ nextId = 6
    /\ fewShot = DefaultFewShot
    /\ openai = TRUE
    /\ scoreIn = None

NextCache ==
    \/ \E trajectoryId \in 1..3, taskDescription \in Texts, apiOk \in BOOLEAN :
          /\ embeds + searches < MaxCacheCalls
          /\ storeEmbedding(trajectoryId, taskDescription, apiOk, TRUE)
    \/ \E taskDescription \in Texts, apiOk \in BOOLEAN :
          /\ embeds + searches < MaxCacheCalls
          /\ findSimilar([NoParams EXCEPT !.taskDescription = taskDescription],
                         apiOk, TRUE)

SpecCache == InitCache /\ [][NextCache]_vars

----------------------------------------------------------------------------
(* findSimilar over two stored trajectories whose steps hold reasoning     *)
(* text, content blocks of every kind and malformed content                *)

RECURSIVE Repeat(_, _)
\* the text written n times
Repeat(text, n) ==
    IF n = 0 THEN ""
    ELSE IF n = 1 THEN text
    ELSE Repeat(text, n \div 2) \o Repeat(text, n - (n \div 2))

TextBlock(text) == [type |-> "text", text |-> text]

\* the steps a stored trajectory may hold
StepKinds ==
    { "reasoning", "blocks", "noBlocks", "toolsOnly", "nullMessage",
      "nullBlock", "reasoningOverNull" }

CondenseStep(kind, trajectoryId, position, iterationNumber) ==
    [trajectoryId |-> trajectoryId,
     position |-> position,
     iterationNumber |-> iterationNumber,
     systemPrompt |-> "prompt A",
     tokenUsageInput |-> 0,
     tokenUsageOutput |-> 0,
     toolCalls |->
         IF kind = "toolsOnly"
         THEN Some(<<"computer_click_mouse", "", "computer_type_text",
                     "computer_click_mouse">>)
         ELSE IF kind = "blocks" THEN Some(<<"computer_screenshot">>)
         ELSE None,
     reasoning |->
         CASE kind = "reasoning" -> Some(Repeat("r", 100) \o "." \o Repeat("s", 100))
           [] kind = "reasoningOverNull" -> Some("Plan the change first")
           [] OTHER -> None,
     messagesSnapshot |->
         CASE kind = "reasoning" ->
                 Some(<<[role |-> "assistant",
                         content |-> BlockContent(
                             <<TextBlock("This text is passed over")>>)]>>)
           [] kind = "blocks" ->
                 Some(<<[role |-> "assistant",
                         content |-> BlockContent(
                             <<TextBlock("Click the settings icon. Then wait"),
                               TextBlock(Repeat("a", 10)),
                               TextBlock(Repeat("b", 11)),
                               [type |-> "image", text |-> ""],
                               TextBlock(""),
                               TextBlock(Repeat("c", 149) \o ". tail"),
                               TextBlock(Repeat("d", 150))>>)],
                        [role |-> "user",
                         content |-> BlockContent(
                             <<TextBlock("Please open the settings now")>>)],
                        [role |-> "assistant",
                         content |-> StringContent("I will open the settings")],
                        [role |-> "assistant",
                         content |-> BlockContent(
                             <<TextBlock("Open the theme panel"),
                               TextBlock("Select the dark theme. Done"),
                               TextBlock("short. but the rest is long enough")>>)]>>)
           [] kind = "noBlocks" ->
                 Some(<<[role |-> "user",
                         content |-> BlockContent(
                             <<TextBlock("Please open the settings now")>>)],
                        [role |-> "assistant",
                         content |-> StringContent("I will open the settings")]>>)
           [] kind = "toolsOnly" -> None
           [] kind = "nullMessage" ->
                 Some(<<[role |-> "assistant",
                         content |-> BlockContent(
                             <<TextBlock("Open the theme panel")>>)],
                        Null>>)
           [] kind = "nullBlock" ->
                 Some(<<[role |-> "assistant",
                         content |-> BlockContent(
                             <<TextBlock("Open the theme panel"), Null>>)]>>)
           [] kind = "reasoningOverNull" -> Some(<<Null>>)]

\* the steps of trajectory 1: none, one or two, the second written first
CondenseStepSets ==
    { {} }
    \cup { { CondenseStep(kind, 1, 1, 1) } : kind \in StepKinds }
    \cup { { CondenseStep(later, 1, 1, 2), CondenseStep(kind, 1, 2, 1) }
           : kind \in StepKinds, later \in StepKinds }

CondenseParams ==
    { [NoParams EXCEPT !.taskDescription = "open settings"],
      [NoParams EXCEPT !.taskDescription = "open settings", !.topK = Some(1)] }

InitCondense ==
    /\ paused = FALSE
    /\ activeTrajectories = EmptyMap
    /\ now = 0
    /\ calls = <<>>
    /\ config = [enabled |-> TRUE, modelProviders |-> {}, minDuration |-> 1,
                 recordFailures |-> TRUE]
    /\ taskTrajectory = { StoredTrajectory(1, "t1", "anthropic", TRUE, 0),
                          StoredTrajectory(4, "t4", "anthropic", TRUE, 2) }
    /\ \E own \in CondenseStepSets :
           trajectoryStep = own \cup { CondenseStep("reasoningOverNull", 4, 1, 1) }
    /\ trajectoryEmbedding =
           { [id |-> 6, trajectoryId |-> 1, taskDescription |-> "open settings",
              embedding |-> EmbeddingOf("open settings")],
             [id |-> 7, trajectoryId |-> 4, taskDescription |-> "open settings",
              embedding |-> EmbeddingOf("open settings")] }
    /\ fewShotExample = {}
    /\ nextId = 8
    /\ fewShot = DefaultFewShot
    /\ openai = TRUE
    /\ embeddingCache = <<>>
    /\ stored = None
    /\ found = None
    /\ started = 0
    /\ embeds = 0
    /\ searches = 0
    /\ scoreIn = None
    /\ scoreOut = None
    /\ exported = None
    /\ cleaned = None
    /\ last = NoEvent

NextCondense ==
    \E params \in CondenseParams, apiOk \in BOOLEAN, dbOk \in BOOLEAN :
        /\ searches < MaxSearches
        /\ findSimilar(params, apiOk, dbOk)

SpecCondense == InitCondense /\ [][NextCondense]_vars

----------------------------------------------------------------------------
(* Few-Shot Examples next to the recorder, storeEmbedding and cleanup *)

MaxUsage == 2

\* an update that increments the counter and leaves lastUsedAt as it was
recordExampleUsage_keepsLastUsed(exampleId, dbOk) ==
    /\ UNCHANGED <<recorderVars, taskTrajectory, trajectoryStep,
                   trajectoryEmbedding, nextId, searchVars, scoreVars>>
    /\ last' = NoEvent
    /\ IF dbOk /\ \E x \in fewShotExample : x.id = exampleId
       THEN fewShotExample' =
                { IF x.id = exampleId
                  THEN [x EXCEPT !.usageCount = @ + 1]
                  ELSE x : x \in fewShotExample }
       ELSE UNCHANGED fewShotExample

\* prisma.fewShotExample.update({ where: { id }, data: { usageCount:
\* { increment: 1 }, lastUsedAt: new Date() } }); an id without a row and a
\* failing store reject the call and write nothing
recordExampleUsage(exampleId, dbOk) ==
    /\ UNCHANGED <<recorderVars, taskTrajectory, trajectoryStep,
                   trajectoryEmbedding, nextId, searchVars, scoreVars>>
    /\ last' = NoEvent
    /\ IF dbOk /\ \E x \in fewShotExample : x.id = exampleId
       THEN fewShotExample' =
                { IF x.id = exampleId
                  THEN [x EXCEPT !.usageCount = @ + 1,
                                 !.lastUsedAt = Some(now)]
                  ELSE x : x \in fewShotExample }
       ELSE UNCHANGED fewShotExample

\* a row of table "FewShotExample" as the curation process leaves it; the
\* columns this system never writes (title, description, condensedContent,
\* taskType, difficulty, createdAt) are left out
ExampleRow(id, trajectoryId) ==
    [id |-> id, trajectoryId |-> trajectoryId, isActive |-> TRUE,
     usageCount |-> 0, lastUsedAt |-> None]

\* an example of each stored trajectory
ExampleRows == { ExampleRow("e1", 1), ExampleRow("e2", 2) }

ExampleIds == { x.id : x \in ExampleRows } \cup {"e9"}

InitExamples ==
    /\ paused = FALSE
    /\ activeTrajectories = EmptyMap
    /\ now = 0
    /\ calls = <<>>
    /\ trajectoryStep = {}
    /\ trajectoryEmbedding = {}
    /\ fewShotExample = ExampleRows
    /\ embeddingCache = <<>>
    /\ stored = None
    /\ found = None
    /\ started = 0
    /\ embeds = 0
    /\ searches = 0
    /\ scoreOut = None
    /\ exported = None
    /\ cleaned = None
    /\ last = NoEvent
    /\ config = [enabled |-> TRUE, modelProviders |-> {}, minDuration |-> 0,
                 recordFailures |-> TRUE]
    /\ taskTrajectory =
           { StoredTrajectory(1, "t3", "anthropic", TRUE, 0),
             [StoredTrajectory(2, "t4", "anthropic", TRUE, 0)
                  EXCEPT !.createdAt = 1] }
    /\ nextId = 3
    /\ fewShot = DefaultFewShot
    /\ openai = TRUE
    /\ scoreIn = None

NextExamples ==
    \/ /\ started < 1
       /\ startTrajectory("t1", "anthropic", ModelNameOf["anthropic"])
    \/ \E success \in BOOLEAN :
          /\ Recording("t1")
          /\ Len(calls) < MaxCalls
          /\ completeTrajectory("t1", success, NoMetrics)
    \/ \E i \in 1..Len(calls), dbOk \in BOOLEAN : CreateResolves(i, dbOk)
    \/ \E i \in 1..Len(calls), apiOk \in BOOLEAN : EmbedResolves(i, apiOk)
    \/ \E i \in 1..Len(calls), dbOk \in BOOLEAN : UpsertResolves(i, dbOk)
    \/ Tick
    \/ \E trajectoryId \in 1..2, apiOk \in BOOLEAN, dbOk \in BOOLEAN :
          /\ embeds < 1
          /\ storeEmbedding(trajectoryId, "change theme", apiOk, dbOk)
    \/ \E options \in OverlapCleanupOptions, dbOk \in BOOLEAN :
          /\ cleaned = None
          /\ cleanup(options, dbOk)
    \/ \E exampleId \in ExampleIds, dbOk \in BOOLEAN :
          /\ \A x \in fewShotExample :
                x.id = exampleId => x.usageCount < MaxUsage
          /\ recordExampleUsage(exampleId, dbOk)

SpecExamples == InitExamples /\ [][NextExamples]_vars


----------------------------------------------------------------------------
(* Properties *)

\* C1: startTrajectory(T, provider, model) creates T's in-memory record if
\* and only if recording is enabled, not paused, and the provider allow-list
\* is empty or holds the provider; in every other case the active map is
\* left unchanged; in both cases the store is left unchanged.
C1_StartIffEligible ==
    [][\A taskId \in Tasks, modelProvider \in Providers :
          startTrajectory(taskId, modelProvider, ModelNameOf[modelProvider]) =>
              /\ UNCHANGED <<taskTrajectory, trajectoryStep, trajectoryEmbedding>>
              /\ IF /\ config.enabled
                    /\ ~paused
                    /\ \/ config.modelProviders = {}
                       \/ modelProvider \in config.modelProviders
                 THEN /\ Recording(taskId)'
                      /\ activeTrajectories'[taskId].modelProvider = modelProvider
                      /\ activeTrajectories'[taskId].iterations = <<>>
                      /\ \A other \in Tasks \ {taskId} :
                            /\ Recording(other)' = Recording(other)
                            /\ Recording(other) =>
                                   activeTrajectories'[other] =
                                       activeTrajectories[other]
                 ELSE UNCHANGED activeTrajectories]_vars

C1_Witness ==
    /\ last.op = "startTrajectory"
    /\ config.modelProviders = {"anthropic"}
    /\ Recording(last.taskId)
    /\ activeTrajectories[last.taskId].modelProvider = "anthropic"

\* C2: a completeTrajectory call made when less than config.minDuration has
\* elapsed since the start ends as the too-short discard whatever the value
\* of success: it writes no row, raises nothing and removes the task's
\* record; no call is left awaiting a save for such a run, and no trajectory
\* row in the store is of a run shorter than the minimum.
C2_TooShortDiscards ==
    /\ (last.op = "completeTrajectory" /\ last.elapsed < config.minDuration) =>
           /\ last.outcome = "tooShort"
           /\ ~last.wrote
           /\ ~last.raised
           /\ ~Recording(last.taskId)
    /\ \A i \in 1..Len(calls) : calls[i].elapsed >= config.minDuration
    /\ \A t \in taskTrajectory :
           Get(t.completedAt) - t.startedAt >= config.minDuration

C2_Witness ==
    /\ last.op = "completeTrajectory"
    /\ last.outcome = "tooShort"
    /\ last.success
    /\ last.elapsed < config.minDuration

\* C3: a completeTrajectory call with success = false, when
\* config.recordFailures is off, writes nothing and removes the task's
\* record, and no failed run is ever in the store or awaiting a save; when
\* the policy is on and the run lasted long enough, the call goes on to the
\* save, and the row it writes carries success = false.
C3_FailurePolicy ==
    /\ (last.op = "completeTrajectory" /\ ~last.success) =>
           IF ~config.recordFailures
           THEN /\ last.outcome \in {"tooShort", "skippedFailure"}
                /\ ~last.wrote
                /\ ~Recording(last.taskId)
           ELSE last.elapsed >= config.minDuration =>
                   /\ last.outcome \in {"awaitingCreate", "awaitingEmbedding",
                                        "awaitingUpsert", "saved",
                                        "savedNoEmbedding",
                                        "savedEmbeddingFailed", "saveFailed"}
                   /\ (last.wrote /\ last.outcome # "saved") =>
                          \E t \in taskTrajectory :
                              t.taskId = last.taskId /\ ~t.success
    /\ ~config.recordFailures =>
           /\ \A t \in taskTrajectory : t.success
           /\ \A i \in 1..Len(calls) : calls[i].success
    /\ \A i \in 1..Len(calls) : calls[i].data.success = calls[i].success

C3_Witness ==
    /\ last.op = "completeTrajectory"
    /\ ~last.success
    /\ last.wrote
    /\ config.recordFailures
    /\ \E t \in taskTrajectory : t.taskId = last.taskId /\ ~t.success

\* C4: no step of a completeTrajectory call raises to its caller: not the
\* part before the save, and not the end of a call whose store write or
\* embedding step failed.
C4_NeverRaises ==
    last.op = "completeTrajectory" => ~last.raised

C4_Witness ==
    /\ last.op = "completeTrajectory"
    /\ last.outcome = "saveFailed"
    /\ ~last.raised

\* C5: when a completeTrajectory call for a recorded task has ended, by the
\* too-short discard, the failure-policy discard, a save or a failed save,
\* the task is absent from the active map.
C5_RecordReleased ==
    (/\ last.op = "completeTrajectory"
     /\ last.outcome \in {"tooShort", "skippedFailure", "saved",
                          "savedNoEmbedding", "savedEmbeddingFailed",
                          "saveFailed"}) =>
        ~Recording(last.taskId)

C5_Witness ==
    /\ last.op = "completeTrajectory"
    /\ last.outcome = "saved"
    /\ ~Recording(last.taskId)

\* C6: cancelTrajectory(T) removes T's record and writes nothing to the
\* store; a record for T appears only by startTrajectory(T); and
\* completeTrajectory(T) called while T has no record changes neither the
\* active map nor the store and leaves no call awaiting a save.  Hence a
\* complete that follows a cancel with no start in between is a no-op.
C6_CancelThenCompleteIsNoOp ==
    [][\A taskId \in Tasks :
          /\ cancelTrajectory(taskId) =>
                 /\ ~Recording(taskId)'
                 /\ UNCHANGED <<taskTrajectory, trajectoryStep,
                                trajectoryEmbedding, calls>>
          /\ (~Recording(taskId) /\ Recording(taskId)') =>
                 /\ last'.op = "startTrajectory"
                 /\ last'.taskId = taskId
          /\ \A success \in BOOLEAN, additionalMetrics \in AdditionalMetrics :
                 (/\ ~Recording(taskId)
                  /\ completeTrajectory(taskId, success, additionalMetrics)) =>
                     UNCHANGED <<activeTrajectories, calls, taskTrajectory,
                                 trajectoryStep, trajectoryEmbedding>>]_vars

C6_Witness ==
    /\ last.op = "cancelTrajectory"
    /\ ~Recording(last.taskId)
    /\ ~last.wrote

\* C7: every trajectory row in the store, and every row a suspended
\* completeTrajectory call is about to write, has a null quality score if
\* and only if its success flag is false, whatever metrics the run had.
C7_NullScoreIffFailed ==
    /\ \A t \in taskTrajectory : (t.qualityScore = None) <=> ~t.success
    /\ \A i \in 1..Len(calls) :
           (calls[i].data.qualityScore = None) <=> ~calls[i].data.success

C7_Witness ==
    /\ \E t \in taskTrajectory :
           ~t.success /\ t.qualityScore = None /\ t.userInterventions > 0
    /\ \E t \in taskTrajectory : t.success /\ t.qualityScore # None

\* C8: for a successful trajectory the quality score is
\* clamp(1.0 - 0.3*min(interventions,3) - 0.2*max(0,errorRate-0.1)
\*       - 0.2*max(0,0.8-clickAccuracy) [when clickAccuracy is given]
\*       - 0.02*max(0,iterationCount-10), 0, 1),
\* it lies in [0,1], (0, 0.05, 0.95, 6) scores 1.0 and (2, 0.3, 0.5, 20)
\* scores 0.1.
C8_ScoreFormula ==
    (scoreOut # None /\ Get(scoreIn).success) =>
        LET m == Get(scoreIn).metrics
            raw == ScoreOne
                   - 3000 * Min(m.userInterventions, 3)
                   - 2 * Max(0, m.errorRate - 100)
                   - (IF m.clickAccuracy # None
                      THEN 2 * Max(0, 800 - Get(m.clickAccuracy))
                      ELSE 0)
                   - 200 * Max(0, m.iterationCount - 10)
            expected == IF raw < 0 THEN 0
                        ELSE IF raw > ScoreOne THEN ScoreOne ELSE raw
        IN  /\ Get(scoreOut) = Some(expected)
            /\ Get(Get(scoreOut)) >= 0
            /\ Get(Get(scoreOut)) <= ScoreOne
            /\ (/\ m.userInterventions = 0
                /\ m.errorRate = 50
                /\ m.clickAccuracy = Some(950)
                /\ m.iterationCount = 6) => Get(scoreOut) = Some(ScoreOne)
            /\ (/\ m.userInterventions = 2
                /\ m.errorRate = 300
                /\ m.clickAccuracy = Some(500)
                /\ m.iterationCount = 20) => Get(scoreOut) = Some(1000)

C8_Witness ==
    /\ scoreOut = Some(Some(1000))
    /\ Get(scoreIn).success
    /\ Get(scoreIn).metrics.userInterventions = 2
    /\ Get(scoreIn).metrics.errorRate = 300
    /\ Get(scoreIn).metrics.clickAccuracy = Some(500)
    /\ Get(scoreIn).metrics.iterationCount = 20

\* C9: the store never holds two embedding rows of one trajectory id, and
\* after a storeEmbedding call that reached the store the one row of its
\* trajectory id carries the text and the vector of that call, also when the
\* id already had a row with another text.
C9_OneEmbeddingPerTrajectory ==
    /\ \A e1, e2 \in trajectoryEmbedding :
           e1.trajectoryId = e2.trajectoryId => e1 = e2
    /\ stored # None =>
           \E e \in trajectoryEmbedding :
               /\ e.trajectoryId = Get(stored).trajectoryId
               /\ e.taskDescription = Get(stored).taskDescription
               /\ e.embedding = EmbeddingOf(Get(stored).taskDescription)

C9_Witness ==
    /\ stored # None
    /\ Get(stored).replaced
    /\ Cardinality({ e \in trajectoryEmbedding :
                       e.trajectoryId = Get(stored).trajectoryId }) = 1

\* C10: every result of findSimilar has the similarity of its trajectory's
\* embedding to the query's embedding, and that similarity is not below the
\* threshold in force for the call: the caller's minSimilarity when it is
\* given and not zero, else the configured threshold, else 0.7.
C10_ResultsMeetThreshold ==
    found # None =>
        LET params == Get(found).params
            returned == Get(found).returned
            threshold ==
                IF params.minSimilarity # None /\ Get(params.minSimilarity) # 0
                THEN Get(params.minSimilarity)
                ELSE IF fewShot.similarityThreshold # 0
                THEN fewShot.similarityThreshold
                ELSE 700
        IN  \A k \in 1..Len(returned) :
                /\ \E e \in trajectoryEmbedding :
                       /\ e.trajectoryId = returned[k].trajectory.id
                       /\ returned[k].similarity =
                              Similarity(e.embedding,
                                         EmbeddingOf(params.taskDescription))
                /\ returned[k].similarity >= threshold
                /\ params.minSimilarity # None =>
                       returned[k].similarity >= Get(params.minSimilarity)

C10_Witness ==
    /\ found # None
    /\ Len(Get(found).returned) >= 1
    /\ \E e \in trajectoryEmbedding, t \in taskTrajectory :
           /\ e.trajectoryId = t.id
           /\ t.success
           /\ t.modelProvider = "anthropic"
           /\ Similarity(e.embedding,
                         EmbeddingOf(Get(found).params.taskDescription)) < 700
           /\ \A k \in 1..Len(Get(found).returned) :
                  Get(found).returned[k].trajectory.id # t.id


\* C11: the list findSimilar returns is in non-increasing order of
\* similarity: of any two results the earlier has a similarity greater than
\* or equal to the later's.
C11_ResultsSortedBySimilarity ==
    found # None =>
        \A i, j \in 1..Len(Get(found).returned) :
            i < j => Get(found).returned[i].similarity >=
                         Get(found).returned[j].similarity

C11_Witness ==
    /\ found # None
    /\ Len(Get(found).returned) >= 2
    /\ Get(found).returned[1].similarity > Get(found).returned[2].similarity

\* C12: findSimilar never raises, and it returns the empty list when the
\* store holds no trajectory, when the few-shot feature is off, when there is
\* no embedding client, and when the embedding call or the query fails.
C12_SearchDegradesToEmpty ==
    found # None =>
        /\ ~Get(found).raised
        /\ (\/ taskTrajectory = {}
            \/ ~fewShot.enabled
            \/ ~openai
            \/ Get(found).failure # "") => Get(found).returned = <<>>

C12_Witness ==
    /\ found # None
    /\ Get(found).failure = "query"
    /\ Get(found).returned = <<>>
    /\ \E t \in taskTrajectory, e \in trajectoryEmbedding :
           /\ e.trajectoryId = t.id
           /\ t.success
           /\ t.modelProvider = "anthropic"
           /\ e.taskDescription = Get(found).params.taskDescription

\* C14: when the source-provider list is not empty every trajectory
\* findSimilar returns has a model provider of that list, whatever provider
\* the caller filters on, and a caller filter on a provider outside the list
\* gives the empty result.
C14_OnlySourceProviders ==
    (found # None /\ fewShot.sourceProviders # {}) =>
        /\ \A k \in 1..Len(Get(found).returned) :
               Get(found).returned[k].trajectory.modelProvider
                   \in fewShot.sourceProviders
        /\ (/\ Get(found).params.modelProvider # None
            /\ Get(Get(found).params.modelProvider) \notin fewShot.sourceProviders)
               => Get(found).returned = <<>>

C14_Witness ==
    /\ found # None
    /\ fewShot.sourceProviders = {"anthropic"}
    /\ isAvailable
    /\ Get(found).failure = ""
    /\ Get(found).params.modelProvider = Some("openai")
    /\ Get(found).returned = <<>>
    /\ \E t \in taskTrajectory, e \in trajectoryEmbedding :
           /\ e.trajectoryId = t.id
           /\ t.success
           /\ t.modelProvider = "openai"
           /\ e.taskDescription = Get(found).params.taskDescription

\* C20: the embedding cache never holds more entries than its limit (100 in
\* the program), after any sequence of embedding requests.
C20_CacheWithinLimit == Len(embeddingCache) <= CacheLimit


\* C19: when the embedding step of a completeTrajectory call fails after the
\* trajectory was written, the call returns without raising and the
\* trajectory row and every one of its step rows are still in the store.
C19_EmbeddingFailureKeepsTrajectory ==
    (last.op = "completeTrajectory" /\ last.outcome = "savedEmbeddingFailed") =>
        /\ ~last.raised
        /\ \E t \in taskTrajectory :
               /\ t.taskId = last.taskId
               /\ t.success = last.success
               /\ { x.position : x \in { y \in trajectoryStep :
                                           y.trajectoryId = t.id } }
                      = 1..t.iterationCount

C19_Witness ==
    /\ last.op = "completeTrajectory"
    /\ last.outcome = "savedEmbeddingFailed"
    /\ \E t \in taskTrajectory :
           /\ t.taskId = last.taskId
           /\ t.iterationCount = 1
           /\ \E x \in trajectoryStep : x.trajectoryId = t.id


\* C15: a cleanup call that returns deletes exactly the trajectories created
\* strictly before the cutoff whose quality score is at most maxQuality or
\* missing; a row with a score above maxQuality stays whatever its age, a row
\* created at or after the cutoff stays, and the call returns the number of
\* rows it deleted.
C15_CleanupDeletesOldLowQuality ==
    \A c \in cleaned :
        ~c.raised =>
            LET maxQuality == IF c.options.maxQuality = None
                              THEN 3000 ELSE Get(c.options.maxQuality)
                olderThanDays == IF c.options.olderThanDays = None
                                 THEN 90 ELSE Get(c.options.olderThanDays)
            IN  /\ c.cutoffDate = now - olderThanDays
                /\ c.after \subseteq c.before
                /\ taskTrajectory = c.after
                /\ \A t \in c.before :
                       t \notin c.after <=>
                           /\ t.createdAt < c.cutoffDate
                           /\ \/ t.qualityScore = None
                              \/ Get(t.qualityScore) <= maxQuality
                /\ \A t \in c.before :
                       (t.qualityScore # None /\ Get(t.qualityScore) > maxQuality)
                           => t \in c.after
                /\ \A t \in c.before :
                       (t.createdAt >= c.cutoffDate) => t \in c.after
                /\ c.count = Cardinality(c.before \ c.after)

\* a cleanup with the defaults has deleted the scoreless and the 0.3 row of
\* day 0 and the row of the day before the cutoff, and kept the row above
\* 0.3 and the row created at the cutoff
C15_Witness ==
    \E c \in cleaned :
        /\ ~c.raised
        /\ c.options.olderThanDays = None
        /\ c.options.maxQuality = None
        /\ c.before = CleanupRows
        /\ c.count = 3
        /\ { t.id : t \in c.after } = {3, 4, 6}

\* C16: a cleanup call that returns leaves at least min(keepCount, number of
\* trajectories before the call) trajectories in the store.
C16_KeepCountIsAFloor ==
    \A c \in cleaned :
        ~c.raised =>
            Cardinality(c.after)
                >= Min(KeepCount(c.options), Cardinality(c.before))


\* the calls for a task whose create has not answered yet
AwaitingCreate(cs, taskId) ==
    Cardinality({ i \in 1..Len(cs) :
                    cs[i].taskId = taskId /\ cs[i].stage = "create" })

\* C17: the store never holds two trajectory rows of one task id, also when
\* the task is started and completed again or when two completeTrajectory
\* calls for it overlap; a create that answers while the task already has a
\* row fails, the call returns without raising, and the row and its steps
\* stay as they were.
C17_OneRowPerTask ==
    [][/\ \A t1, t2 \in taskTrajectory' :
              t1.taskId = t2.taskId => t1 = t2
       /\ \A t \in taskTrajectory :
              AwaitingCreate(calls', t.taskId) < AwaitingCreate(calls, t.taskId)
                  => /\ last'.op = "completeTrajectory"
                     /\ last'.taskId = t.taskId
                     /\ last'.outcome = "saveFailed"
                     /\ ~last'.raised
                     /\ UNCHANGED <<taskTrajectory, trajectoryStep,
                                    trajectoryEmbedding>>]_vars

\* a second create for a task was refused while the first row, written by a
\* later-finished or earlier call, is in the store
C17_Witness ==
    /\ last.op = "completeTrajectory"
    /\ last.outcome = "saveFailed"
    /\ \E t \in taskTrajectory : t.taskId = last.taskId /\ t.success # last.success

\* C18: every step row belongs to a trajectory row of the store, and every
\* trajectory row has all the step rows it was written with, one per
\* recorded iteration, also after cleanup has deleted trajectories; an
\* embedding row likewise never outlives its trajectory.
C18_StepsWithTheirTrajectory ==
    /\ \A x \in trajectoryStep : \E t \in taskTrajectory : t.id = x.trajectoryId
    /\ \A e \in trajectoryEmbedding :
           \E t \in taskTrajectory : t.id = e.trajectoryId
    /\ \A t \in taskTrajectory :
           LET steps == { x \in trajectoryStep : x.trajectoryId = t.id }
           IN  /\ Cardinality(steps) = t.iterationCount
               /\ { x.position : x \in steps } = 1..t.iterationCount

\* a cleanup has deleted a trajectory that had a step and an embedding, and
\* the task's next trajectory, with its step, is in the store
C18_Witness ==
    /\ \E c \in cleaned : c.count = 1
    /\ \E t \in taskTrajectory :
           /\ t.id > 1
           /\ t.iterationCount = 1
           /\ \E x \in trajectoryStep : x.trajectoryId = t.id


C29_TokenTotalIsSum ==
    \A t \in taskTrajectory :
        /\ t.tokenUsageInput >= 0
        /\ t.tokenUsageOutput >= 0
        /\ t.tokenUsageTotal >= 0
        /\ t.tokenUsageTotal = t.tokenUsageInput + t.tokenUsageOutput


RECURSIVE SumOver(_, _, _)
\* the sum of field(snapshot) over iterations[1..n]
SumOver(iterations, n, field) ==
    IF n = 0 THEN 0
    ELSE SumOver(iterations, n - 1, field)
         + (CASE field = "input" -> iterations[n].tokenUsage.input
              [] field = "output" -> iterations[n].tokenUsage.output
              [] field = "toolCalls" ->
                     IF iterations[n].toolCalls = None THEN 0
                     ELSE Len(Get(iterations[n].toolCalls)))

\* C28: for a task that is being recorded and has not been completed, the
\* iteration count is the number of accumulated snapshots, token input and
\* output are the sums over the snapshots, the token total is input plus
\* output, and the tool-call count is the number of tool calls of all
\* snapshots; each step keeps the snapshots recorded so far in order and adds
\* at most one, and the intervention counter starts at 0 and grows by
\* exactly one with each recordUserIntervention.
C28_MetricsFollowSnapshots ==
    /\ [](\A taskId \in DOMAIN activeTrajectories :
            LET trajectory == activeTrajectories[taskId]
                metrics == trajectory.metrics
                n == Len(trajectory.iterations)
            IN  trajectory.completedAt = None =>
                    /\ metrics.iterationCount = n
                    /\ metrics.tokenUsage.input
                           = SumOver(trajectory.iterations, n, "input")
                    /\ metrics.tokenUsage.output
                           = SumOver(trajectory.iterations, n, "output")
                    /\ metrics.tokenUsage.total
                           = metrics.tokenUsage.input + metrics.tokenUsage.output
                    /\ metrics.toolCallsCount
                           = SumOver(trajectory.iterations, n, "toolCalls")
                    /\ metrics.userInterventions >= 0)
    /\ [][\A taskId \in DOMAIN activeTrajectories' :
            LET after == activeTrajectories'[taskId]
            IN  IF last'.op = "startTrajectory" \/ taskId \notin DOMAIN activeTrajectories
                THEN after.iterations = <<>> /\ after.metrics.userInterventions = 0
                ELSE LET before == activeTrajectories[taskId]
                         grown == Len(after.iterations) - Len(before.iterations)
                         more == after.metrics.userInterventions
                                     - before.metrics.userInterventions
                     IN  /\ grown \in {0, 1}
                         /\ more \in {0, 1}
                         /\ grown + more <= 1
                         /\ SubSeq(after.iterations, 1, Len(before.iterations))
                                = before.iterations]_vars

\* three snapshots of different usage, one of them without tool calls, and
\* two interventions have been recorded
C28_Witness ==
    /\ Recording("t1")
    /\ Len(activeTrajectories["t1"].iterations) = 3
    /\ activeTrajectories["t1"].iterations[2].toolCalls = None
    /\ activeTrajectories["t1"].metrics.toolCallsCount = 3
    /\ activeTrajectories["t1"].metrics.tokenUsage.total = 15
    /\ activeTrajectories["t1"].metrics.userInterventions = 2


\* C27: a task without a record in the active map (never started, refused at
\* start, completed or cancelled) gets one only through an accepted
\* startTrajectory; recordIteration and recordUserIntervention for it, like
\* every other call that finds nothing to do, leave it without a record and
\* leave the store and the calls in flight as they are.
C27_NoRecordNoEffect ==
    [][/\ \A taskId \in Tasks :
              (~Recording(taskId) /\ MapHas(activeTrajectories', taskId))
                  => (last'.op = "startTrajectory" /\ last'.taskId = taskId)
       /\ last' = NoEvent =>
              /\ UNCHANGED <<taskTrajectory, trajectoryStep,
                             trajectoryEmbedding, nextId, calls>>
              /\ DOMAIN activeTrajectories' = DOMAIN activeTrajectories]_vars

\* a call that found nothing to do has been handled after task t1 was
\* completed and saved and while task t2, never started, has no record
C27_Witness ==
    /\ last = NoEvent
    /\ calls = <<>>
    /\ activeTrajectories = EmptyMap
    /\ started = 1
    /\ \E t \in taskTrajectory : t.taskId = "t1"


\* C26: pause and resume change the paused flag and nothing else; a call
\* made while paused never opens or replaces a recording; whenever the
\* recorder is not paused, before a pause as after a resume, a provider is
\* eligible exactly when recording is enabled and the allow-list is empty or
\* holds it, and the configuration never changes. (That recordings under
\* way accept iterations and interventions and are persisted while paused
\* is what the witness shows.)
C26_PauseTouchesOnlyTheFlag ==
    /\ [](\A modelProvider \in Providers :
            ~paused =>
                (shouldRecord(modelProvider) <=>
                    /\ config.enabled
                    /\ \/ config.modelProviders = {}
                       \/ modelProvider \in config.modelProviders))
    /\ [][/\ config' = config
          /\ paused' # paused =>
                 UNCHANGED <<activeTrajectories, calls, now, taskTrajectory,
                             trajectoryStep, trajectoryEmbedding, nextId,
                             embeddingCache, fewShot, openai>>
          /\ paused =>
                 /\ last'.op # "startTrajectory"
                 /\ \A taskId \in DOMAIN activeTrajectories' :
                        /\ MapHas(activeTrajectories, taskId)
                        /\ activeTrajectories'[taskId].startedAt
                               = activeTrajectories[taskId].startedAt]_vars

\* a recording started before the pause took an iteration and an
\* intervention and was completed and saved, all while paused
C26_Witness ==
    /\ paused
    /\ last.op = "completeTrajectory"
    /\ last.outcome = "saved"
    /\ \E t \in taskTrajectory :
           /\ t.taskId = last.taskId
           /\ t.iterationCount = 1
           /\ t.userInterventions = 1


\* C25: a completeTrajectory call that is waiting for the store or for the
\* embedding provider eventually returns and releases the task's record,
\* whether or not they ever answer.
C25_CompleteEventuallyReturns ==
    (calls # <<>>) ~> (calls = <<>> /\ ~Recording("t1"))


\* C21: every trajectory exportForFineTuning returns passes the filters in
\* force: it succeeded unless successOnly is false, it has a quality score of
\* at least minQuality (0.7 when none is given), and it is of the requested
\* provider when one is given; without a limit every stored trajectory that
\* passes them is returned.
C21_ExportMeetsFilters ==
    \A x \in exported :
        (x.op = "exportForFineTuning" /\ ~x.raised) =>
            LET options == x.arguments
                minQuality == IF options.minQuality = None THEN 7000
                              ELSE Get(options.minQuality)
                successOnly == options.successOnly # Some(FALSE)
                passes(t) ==
                    /\ successOnly => t.success
                    /\ t.qualityScore # None
                    /\ Get(t.qualityScore) >= minQuality
                    /\ options.modelProvider # None
                           => t.modelProvider = Get(options.modelProvider)
                returned == { e.metadata.taskId :
                                e \in Range(Get(x.data).trajectories) }
            IN  /\ \A t \in x.store :
                       t.taskId \in returned => passes(t)
                /\ options.limit = None =>
                       \A t \in x.store : passes(t) => t.taskId \in returned

\* C22: exportForFineTuning lists the trajectories in non-increasing order
\* of quality score, and with a limit it returns the `limit` highest-scored
\* trajectories that pass the filters, or all of them when fewer pass.
C22_ExportOrderedAndLimited ==
    \A x \in exported :
        (x.op = "exportForFineTuning" /\ ~x.raised) =>
            LET options == x.arguments
                list == Get(x.data).trajectories
                matching == { t \in x.store : ExportWhere(t, options) }
                returned == { t \in x.store :
                                \E k \in 1..Len(list) :
                                    list[k].metadata.taskId = t.taskId }
            IN  /\ \A i, j \in 1..Len(list) :
                       i < j =>
                           /\ list[i].metadata.qualityScore # None
                           /\ list[j].metadata.qualityScore # None
                           /\ Get(list[i].metadata.qualityScore)
                                  >= Get(list[j].metadata.qualityScore)
                /\ options.limit # None =>
                       /\ Len(list) = Min(Get(options.limit), Cardinality(matching))
                       /\ \A t \in returned, u \in matching \ returned :
                              /\ t.qualityScore # None
                              /\ u.qualityScore # None =>
                                     Get(t.qualityScore) >= Get(u.qualityScore)


\* C23: for every exported trajectory, the message list of a 'gemini'
\* export is the message list the 'openai' format gives for it.
C23_GeminiEqualsOpenAI ==
    \A x \in exported :
        (x.op = "exportForFineTuning" /\ ~x.raised /\ x.arguments.format = "gemini")
            => \A e \in Range(Get(x.data).trajectories) :
                   \E t \in x.store :
                       /\ t.taskId = e.metadata.taskId
                       /\ e.messages = ConvertTo("openai", WithRelations(t))

\* a 'gemini' export returned the trajectory of task t1, whose snapshots
\* hold content blocks
C23_Witness ==
    \E x \in exported :
        /\ x.op = "exportForFineTuning"
        /\ ~x.raised
        /\ x.arguments.format = "gemini"
        /\ \E e \in Range(Get(x.data).trajectories) :
               e.metadata.taskId = "t1" /\ Len(e.messages) > 2

\* C24: when the store read fails in exportForFineTuning or
\* exportStatistics, or the delete fails in cleanup, the call raises the
\* error and returns nothing: no empty or partial result stands in for it,
\* and no file is written.
C24_ExporterFailuresPropagate ==
    /\ \A x \in exported :
           x.failure # "" => (x.raised /\ x.data = None /\ x.file = None)
    /\ \A x \in exported : x.raised <=> x.failure # ""
    /\ \A c \in cleaned :
           c.failure # "" => (c.raised /\ c.after = c.before)
    /\ \A c \in cleaned : c.raised <=> c.failure # ""

\* a failed read was raised by exportStatistics over a store that holds rows
C24_Witness ==
    \E x \in exported :
        /\ x.op = "exportStatistics"
        /\ x.failure = "read"
        /\ x.raised
        /\ x.store # {}

\* the messages the snapshots of a trajectory hold, step after step in
\* ascending iteration order
SnapshotMessages(t) == RawMessages(WithRelations(t).steps)

\* the messages that open the list: the system message of the first step's
\* prompt when there is a step, then the user message of the task
Opening(t) ==
    (IF \E x \in trajectoryStep : x.trajectoryId = t.id
     THEN <<[role |-> "system",
             content |-> (CHOOSE x \in trajectoryStep :
                             /\ x.trajectoryId = t.id
                             /\ \A y \in trajectoryStep :
                                    y.trajectoryId = t.id
                                        => x.iterationNumber <= y.iterationNumber)
                         .systemPrompt]>>
     ELSE <<>>)
    \o <<[role |-> "user", content |-> TaskDescription(t.taskId)]>>

\* the text blocks of a block list, joined by newlines
TextBlocksOnly(blocks) ==
    LET texts == SelectSeq(blocks, LAMBDA block : block.type = "text")
    IN  JoinLines([k \in 1..Len(texts) |-> texts[k].text])

\* C30 (as stated): the 'openai' message list is the opening messages, then
\* one role + text pair for every role-tagged message of the snapshots, in
\* which an image block leaves a placeholder in the text.
C30_OpenAIMessageList ==
    \A x \in exported :
        (x.op = "exportForFineTuning" /\ ~x.raised /\ x.arguments.format = "openai")
            => \A e \in Range(Get(x.data).trajectories) :
                   \E t \in x.store :
                       /\ t.taskId = e.metadata.taskId
                       /\ LET all == SnapshotMessages(t)
                              opening == Opening(t)
                              n == Len(opening)
                          IN  /\ Len(e.messages) = n + Len(all)
                              /\ SubSeq(e.messages, 1, n) = opening
                              /\ \A k \in 1..Len(all) :
                                     /\ e.messages[n + k].role = all[k].role
                                     /\ (\E b \in Range(all[k].content.blocks) :
                                             b.type = "image")
                                            => e.messages[n + k].content
                                                   # TextBlocksOnly(all[k].content.blocks)

\* C30 (amended): the 'openai' message list is the opening messages, then
\* one role + text pair for every snapshot message whose role is 'assistant'
\* or 'user' (other roles are left out), whose text is the string content
\* itself, the text blocks of a block list joined by newlines (image and
\* other non-text blocks leave nothing), or the JSON text of other content.
C30_OpenAITextOnlyMessages ==
    \A x \in exported :
        (x.op = "exportForFineTuning" /\ ~x.raised /\ x.arguments.format = "openai")
            => \A e \in Range(Get(x.data).trajectories) :
                   \E t \in x.store :
                       /\ t.taskId = e.metadata.taskId
                       /\ LET kept == SelectSeq(SnapshotMessages(t),
                                         LAMBDA msg : msg.role \in {"assistant", "user"})
                              opening == Opening(t)
                              n == Len(opening)
                          IN  /\ Len(e.messages) = n + Len(kept)
                              /\ SubSeq(e.messages, 1, n) = opening
                              /\ \A k \in 1..Len(kept) :
                                     /\ e.messages[n + k].role = kept[k].role
                                     /\ e.messages[n + k].content =
                                            IF kept[k].content.kind = "blocks"
                                            THEN TextBlocksOnly(kept[k].content.blocks)
                                            ELSE kept[k].content.text

\* an 'openai' export returned the trajectory of task t1: two steps stored
\* out of order, image blocks, a tool_use block, a message of role 'tool'
\* and a content that is neither a string nor a block list
C30_Witness ==
    \E x \in exported :
        /\ x.op = "exportForFineTuning"
        /\ ~x.raised
        /\ x.arguments.format = "openai"
        /\ \E e \in Range(Get(x.data).trajectories) :
               /\ e.metadata.taskId = "t1"
               /\ e.messages =
                      <<[role |-> "system", content |-> "prompt A"],
                        [role |-> "user", content |-> "open settings"],
                        [role |-> "user", content |-> "open settings"],
                        [role |-> "assistant", content |-> "click"],
                        [role |-> "user", content |-> ""],
                        [role |-> "assistant", content |-> "done\nbye"],
                        [role |-> "user", content |-> "{\"a\":1}"]>>

\* C38: findSimilar compares the success flag with the success-only
\* parameter: with successOnly omitted or true every returned trajectory
\* succeeded, with successOnly false every returned trajectory failed.
C38_SuccessEqualsSuccessOnly ==
    \A f \in found :
        \A k \in 1..Len(f.returned) :
            f.returned[k].trajectory.success = (f.params.successOnly # Some(FALSE))

\* a search with successOnly false returned a failed trajectory and left out
\* a successful one stored with the very text searched for
C38_Witness ==
    \E f \in found :
        /\ f.params.successOnly = Some(FALSE)
        /\ f.returned # <<>>
        /\ \E t \in taskTrajectory, e \in trajectoryEmbedding :
               /\ e.trajectoryId = t.id
               /\ t.success
               /\ t.modelProvider \in fewShot.sourceProviders
               /\ e.taskDescription = f.params.taskDescription

\* C39: an export with successOnly false and a positive minQuality, the
\* default included, holds no failed trajectory; a failed trajectory is in
\* an export only when successOnly is false and minQuality is 0.
C39_FailuresOnlyWithZeroQuality ==
    \A x \in exported :
        (x.op = "exportForFineTuning" /\ ~x.raised)
            => \A e \in Range(Get(x.data).trajectories) :
                   ~e.metadata.success
                       => /\ x.arguments.successOnly = Some(FALSE)
                          /\ x.arguments.minQuality = Some(0)
                          /\ e.metadata.qualityScore = None

\* an export with successOnly false and the default minQuality left out the
\* failed trajectory of the store and returned others
C39_Witness ==
    \E x \in exported :
        /\ x.op = "exportForFineTuning"
        /\ ~x.raised
        /\ x.arguments.successOnly = Some(FALSE)
        /\ x.arguments.minQuality = None
        /\ x.arguments.modelProvider = None
        /\ \E t \in x.store : ~t.success
        /\ Get(x.data).trajectories # <<>>
        /\ \A e \in Range(Get(x.data).trajectories) : e.metadata.success

\* C35: startTrajectory for an eligible provider leaves for the task a
\* fresh record, whatever record the task had: no iterations, counters at
\* zero, started now; and what a complete hands to the store is taken from
\* the record the task has at that moment and from nothing else, so the
\* iterations, counters and start time of a replaced record are not
\* persisted.
C35_RestartReplacesRecord ==
    /\ last.op = "startTrajectory" =>
           /\ Recording(last.taskId)
           /\ LET record == activeTrajectories[last.taskId]
              IN  /\ record = NewTrajectoryData(last.taskId, record.modelProvider,
                                                record.modelName)
                  /\ record.iterations = <<>>
                  /\ record.startedAt = now
                  /\ record.metrics.iterationCount = 0
                  /\ record.metrics.userInterventions = 0
                  /\ record.metrics.tokenUsage.total = 0
    /\ (last.op = "completeTrajectory" /\ last.outcome = "awaitingCreate") =>
           /\ Recording(last.taskId)
           /\ LET record == activeTrajectories[last.taskId]
                  data == calls[Len(calls)].data
              IN  /\ data.taskId = last.taskId
                  /\ data.startedAt = record.startedAt
                  /\ data.iterationCount = record.metrics.iterationCount
                  /\ data.userInterventions = record.metrics.userInterventions
                  /\ Len(data.steps) = Len(record.iterations)
                  /\ \A k \in 1..Len(data.steps) :
                         data.steps[k].iterationNumber =
                             record.iterations[k].iterationNumber

\* a start has replaced a record of an earlier moment that held an
\* iteration and an intervention
C35_Witness ==
    /\ last.op = "startTrajectory"
    /\ last.replaced # None
    /\ Get(last.replaced).iterations # <<>>
    /\ Get(last.replaced).metrics.userInterventions > 0
    /\ Get(last.replaced).startedAt < now
    /\ activeTrajectories[last.taskId].iterations = <<>>

C37_CancelDoesNotAbortSave ==
    [][
        /\ last'.op = "cancelTrajectory" =>
               /\ calls' = calls
               /\ <<taskTrajectory, trajectoryStep, trajectoryEmbedding>>' =
                      <<taskTrajectory, trajectoryStep, trajectoryEmbedding>>
        /\ \A i \in 1..Len(calls) :
               (/\ calls[i].stage = "create"
                /\ last'.op = "completeTrajectory"
                /\ last'.outcome # "saveFailed"
                /\ \/ calls' = RemoveAt(calls, i)
                   \/ /\ Len(calls') = Len(calls)
                      /\ calls'[i].stage # "create")
                   => /\ TrajectoryRow(calls[i].data, nextId) \in taskTrajectory'
                      /\ StepRows(calls[i].data, nextId) \subseteq trajectoryStep'
                      /\ Cardinality(StepRows(calls[i].data, nextId)) =
                             Len(calls[i].data.steps)
        /\ \A i \in 1..Len(calls) :
               (/\ calls[i].stage = "upsert"
                /\ last'.op = "completeTrajectory"
                /\ last'.outcome = "saved"
                /\ calls' = RemoveAt(calls, i))
                   => \E e \in trajectoryEmbedding' :
                          /\ e.trajectoryId = calls[i].id
                          /\ e.embedding = calls[i].embedding
    ]_vars

\* a complete has returned after the task's record had been cancelled from
\* under it, and the trajectory, its steps and its embedding are in the store
C37_Witness ==
    /\ last.op = "completeTrajectory"
    /\ last.outcome = "saved"
    /\ last.replaced = None
    /\ \E t \in taskTrajectory :
           /\ t.taskId = last.taskId
           /\ t.iterationCount = MaxRecorded
           /\ Cardinality({ x \in trajectoryStep : x.trajectoryId = t.id })
                  = MaxRecorded
           /\ \E e \in trajectoryEmbedding : e.trajectoryId = t.id

\* C34: a call for a text the cache holds leaves the cache as it is, order
\* included, and gets the vector without the provider (it succeeds when the
\* provider is down); a call for a text the cache does not hold, answered by
\* the provider, puts the text last, and when that insertion evicts, the
\* entry removed is the first of the insertion order, however the entries
\* were hit before.
C34_CacheIsFifo ==
    [][
        /\ \A trajectoryId \in 1..3, text \in Texts, apiOk \in BOOLEAN :
               storeEmbedding(trajectoryId, text, apiOk, TRUE) =>
                   IF CacheHas(embeddingCache, text)
                   THEN /\ embeddingCache' = embeddingCache
                        /\ \E e \in trajectoryEmbedding' :
                               /\ e.trajectoryId = trajectoryId
                               /\ e.embedding = CacheGet(embeddingCache, text)
                   ELSE IF apiOk
                   THEN /\ embeddingCache'[Len(embeddingCache')].text = text
                        /\ \/ embeddingCache' =
                                  Append(embeddingCache, embeddingCache'[Len(embeddingCache')])
                           \/ embeddingCache' =
                                  Append(Tail(embeddingCache),
                                         embeddingCache'[Len(embeddingCache')])
                   ELSE embeddingCache' = embeddingCache
        /\ \A text \in Texts, apiOk \in BOOLEAN :
               findSimilar([NoParams EXCEPT !.taskDescription = text], apiOk, TRUE) =>
                   IF CacheHas(embeddingCache, text)
                   THEN /\ embeddingCache' = embeddingCache
                        /\ Get(found').failure = ""
                   ELSE IF apiOk
                   THEN /\ embeddingCache'[Len(embeddingCache')].text = text
                        /\ \/ embeddingCache' =
                                  Append(embeddingCache, embeddingCache'[Len(embeddingCache')])
                           \/ embeddingCache' =
                                  Append(Tail(embeddingCache),
                                         embeddingCache'[Len(embeddingCache')])
                   ELSE /\ embeddingCache' = embeddingCache
                        /\ Get(found').failure = "embedding"
        /\ Len(embeddingCache') < Len(embeddingCache) + 1
               => \/ embeddingCache' = embeddingCache
                  \/ Tail(embeddingCache) =
                         SubSeq(embeddingCache', 1, Len(embeddingCache') - 1)
    ]_vars

\* "open settings" was inserted, then hit by a second storeEmbedding, and
\* was the entry evicted when the search for "open theme settings" inserted
\* its text after "change theme"
C34_Witness ==
    /\ Len(embeddingCache) = 2
    /\ embeddingCache[1].text = "change theme"
    /\ embeddingCache[2].text = "open theme settings"
    /\ Cardinality({ e \in trajectoryEmbedding :
                       e.taskDescription = "open settings" }) = 2
    /\ \E f \in found :
           /\ f.params.taskDescription = "open theme settings"
           /\ f.failure = ""
    /\ embeds = 3

RECURSIVE Flatten(_)
\* the sequences of a sequence, one after the other
Flatten(seqs) ==
    IF seqs = <<>> THEN <<>> ELSE Head(seqs) \o Flatten(Tail(seqs))

\* what a step offers as key steps: its reasoning text cut at 200
\* characters, or without reasoning the first sentences, longer than 10 and
\* shorter than 150 characters, of the text blocks of its assistant messages
Candidates(step) ==
    IF step.reasoning # None /\ Get(step.reasoning) # ""
    THEN <<SubSeq(Get(step.reasoning), 1, Min(200, Len(Get(step.reasoning))))>>
    ELSE IF step.messagesSnapshot = None THEN <<>>
    ELSE LET messages == Get(step.messagesSnapshot)
             blocks == Flatten([m \in 1..Len(messages) |->
                          IF /\ messages[m].role = "assistant"
                             /\ messages[m].content.kind = "blocks"
                          THEN messages[m].content.blocks ELSE <<>>])
             texts == SelectSeq(blocks,
                          LAMBDA block : block.type = "text" /\ block.text # "")
             sentences == [k \in 1..Len(texts) |-> FirstSentence(texts[k].text)]
         IN  SelectSeq(sentences,
                       LAMBDA sentence : 10 < Len(sentence) /\ Len(sentence) < 150)

\* C31: the key steps of every example findSimilar returns are at most 5,
\* and are the first 5 of the candidates of the trajectory's steps taken in
\* ascending iteration order.
C31_KeyStepsAreFirstFive ==
    \A f \in found :
        \A k \in 1..Len(f.returned) :
            LET row == f.returned[k].trajectory
                own == { x \in trajectoryStep : x.trajectoryId = row.id }
                ordered == CHOOSE seq \in [1..Cardinality(own) -> own] :
                               \A i, j \in 1..Cardinality(own) :
                                   i < j => seq[i].iterationNumber
                                                < seq[j].iterationNumber
                all == Flatten([i \in 1..Cardinality(own) |-> Candidates(ordered[i])])
                keySteps == f.returned[k].condensedExample.keySteps
            IN  /\ Len(keySteps) <= 5
                /\ keySteps = SubSeq(all, 1, Min(5, Len(all)))

\* an example was returned for a trajectory of six candidates: its key
\* steps are the reasoning text of the first iteration cut at 200
\* characters and the first four sentences of the second
C31_Witness ==
    \E f \in found :
        \E k \in 1..Len(f.returned) :
            LET keySteps == f.returned[k].condensedExample.keySteps
            IN  /\ Len(keySteps) = 5
                /\ Len(keySteps[1]) = 200
                /\ keySteps[2] = "Click the settings icon"
                /\ Len(keySteps[3]) = 11
                /\ Len(keySteps[4]) = 149
                /\ keySteps[5] = "Open the theme panel"

\* C32: when the embedding and the query succeed, findSimilar returns every
\* qualifying candidate, also when a step of one of them holds a null
\* message or a null content block.
C32_MalformedContentIsSkipped ==
    \A f \in found :
        (isAvailable /\ f.failure \notin {"embedding", "query"})
            => \A t \in taskTrajectory :
                   (/\ f.params.topK = None
                    /\ \E e \in trajectoryEmbedding :
                           /\ e.trajectoryId = t.id
                           /\ e.taskDescription = f.params.taskDescription
                    /\ WhereClause(t, f.params, f.params.successOnly # Some(FALSE)))
                       => \E k \in 1..Len(f.returned) :
                              f.returned[k].trajectory.id = t.id


\* the effect of one usage: one row gets its counter raised by exactly 1 and
\* its lastUsedAt set to the current time, every other row stays as it is
UsageRecorded ==
    \E x \in fewShotExample :
        fewShotExample' =
            (fewShotExample \ {x}) \cup
                { [x EXCEPT !.usageCount = x.usageCount + 1,
                            !.lastUsedAt = Some(now)] }

\* C33 (as stated): every step that changes table "FewShotExample" is a
\* recordExampleUsage that adds exactly 1 to one row's usage counter and
\* sets its last-used time; no step of cleanup, storeEmbedding or
\* completeTrajectory deletes or alters a Few-Shot Example.
C33_OnlyUsageChangesExamples ==
    [][fewShotExample' # fewShotExample => UsageRecorded]_vars

\* C33 (amended): recordExampleUsage is the only operation that alters a
\* Few-Shot Example row: it adds exactly 1 to the row's usage counter and
\* sets its last-used time.  cleanup alters no row, and removes exactly the
\* Few-Shot Examples of the trajectories it deletes.  Every other step,
\* storeEmbedding and the steps of completeTrajectory among them, leaves the
\* table as it is.
C33_UsageAltersCleanupCascades ==
    [][
        LET deleted == { t.id : t \in taskTrajectory \ taskTrajectory' }
        IN  /\ fewShotExample' # fewShotExample =>
                  \/ UsageRecorded
                  \/ \E options \in OverlapCleanupOptions :
                        cleanup(options, TRUE)
            /\ UsageRecorded => deleted = {}
            /\ ~UsageRecorded =>
                  fewShotExample' =
                      { x \in fewShotExample : x.trajectoryId \notin deleted }
    ]_vars

\* usage of an example was recorded, and a cleanup removed the examples of
\* a trajectory it deleted while the example of a kept trajectory remains
C33_Witness ==
    /\ cleaned # None
    /\ Get(cleaned).count > 0
    /\ \E x \in fewShotExample :
          /\ x.usageCount > 0
          /\ x.lastUsedAt # None
    /\ \E x \in ExampleRows : \A y \in fewShotExample : y.id # x.id
    /\ stored # None
============================================================================
